---- MODULE Spec2Model ----
(***************************************************************************)
(* Turn supervisor of protoagent: the pending-turn journal and crash       *)
(* recorder (src/resilience.ts), the circuit breaker applied by main() at  *)
(* boot (src/index.ts), the turn logger and watchdog (src/guardrails.ts)   *)
(* and the per-user orchestration of AgentService.processMessage           *)
(* (src/core/agent-service.ts) on top of the Claude provider.              *)
(*                                                                         *)
(* One process runs at a time.  The files PENDING_TURN.txt, error.log and  *)
(* CRASHES.json survive the process; everything else is lost when it ends. *)
(* Of LOGGED_TURNS.json the state holds the records of the running process *)
(* only: no handler reads the records an earlier process left in the file. *)
(* A step of the model is one run of JavaScript between two awaits.        *)
(* File operations are synchronous and are taken to succeed.               *)
(***************************************************************************)
EXTENDS Integers, Sequences, FiniteSets, TLC

\* ---------------------------------------------------------------- bounds
MaxCalls   == 2      \* processMessage calls accepted by one process
MaxErrLog  == 1      \* entries the error log grows to
MaxActions == 1      \* content blocks a provider query yields
MaxTurns   == 3      \* processMessage calls accepted in one behaviour
MaxCrashLog == 4     \* CrashRecords a data directory starts with, under SpecBoot
MaxWatched == 1      \* turns started, and checks waiting at a time, under SpecWatchdog

\* ------------------------------------------------------- program constants
DefaultMaxCrashes == 3
DefaultTurnTimeout == 600000     \* ms
KeptTurns == 100                 \* records LOGGED_TURNS.json keeps
ClaudeTurnTimeout == 120000      \* ms, the turnTimeout of the provider's params

Users   == {"u1", "u2"}
\* The text of the n-th message the service accepts: every message has a text
\* of its own, never empty (the channels turn empty messages away).
Text(n) == ToString(n)
CallIds == 1..MaxCalls

\* The outcome of a settled or rejected call, and the blocks a query yields.
ErrOptions  == "Error: Provider not found"
ErrProvider == "Error: provider failed"
BlockTypes  == {"text"}

\* What a deadline check may read as the open turn's duration, in ms.
Durations == {DefaultTurnTimeout, DefaultTurnTimeout + 1}

VARIABLES
  \* ---- files
  marker,           \* PENDING_TURN.txt: <<>> when absent, <<text>> when present
  errorLog,         \* logs/error.log: the entries appended, <<>> when absent
  crashes,          \* CRASHES.json: the CrashRecords, <<>> when absent
  loggedTurns,      \* LOGGED_TURNS.json: the TurnRecords this process appended,
                    \* oldest first (what earlier processes wrote is not kept)
  paramsFile,       \* DEFAULT_PARAMS.json: <<>> when absent, <<params>> when present
  \* ---- the process
  phase,            \* "off" | "boot" | "breaker" | "halting" | "running"
  maxCrashes,       \* ResilienceManager.maxCrashes of the running process
  isDirty,          \* main(): const isDirty
  processingLock,   \* AgentService.processingLock
  calls,            \* the processMessage calls of this process
  currentTurn,      \* TurnLogger.currentTurn: <<>> or <<record>>
  timeoutId,        \* TurnWatchdog.timeoutId names a timer that is still pending
  orphanTimers,     \* pending timers that timeoutId no longer names
  onStuck,          \* TurnWatchdog.onStuck: <<>> or <<userId of the closure>>
  analystAgent,     \* TurnWatchdog.analystAgent: "none", or the callback set
  checks,           \* checkIfStuck runs waiting for the analyst, oldest first
  invoked,          \* times onStuck was called since the last startWatching
  abortController,  \* ClaudeAgentProvider.abortController: whose query it belongs to
  currentParams,    \* ParamsManager.currentParams
  defaultParams,    \* ParamsManager.defaultParams
  \* ---- observation
  lastExit,         \* how the previous process ended
  death,            \* the journal and the logs at the moment it ended
  journal,          \* last journal operation of the process
  tripped,          \* this boot found the crash log at or over the threshold
  dirtyRun,         \* dirty boots in a row, this one included
  dispatched,       \* provider queries started by this process for user prompts
  accepted,         \* processMessage calls accepted so far, over all processes
  savedParams,      \* what the last saveAsDefaults of this process saved, <<>> before
  lastStep          \* the handler that ran last

disk     == <<marker, errorLog, crashes, loggedTurns>>
process  == <<phase, maxCrashes, isDirty, processingLock, calls, currentTurn,
              timeoutId, orphanTimers, onStuck, analystAgent, checks, invoked,
              abortController>>
observed == <<lastExit, death, journal, tripped, dirtyRun, dispatched,
              accepted, lastStep>>
params   == <<paramsFile, currentParams, defaultParams, savedParams>>
vars     == <<disk, process, observed, params>>

NoCall   == [user |-> "", prompt |-> "", pc |-> "idle", saved |-> FALSE,
             queries |-> 0, aborted |-> FALSE, stuck |-> FALSE]
NoDeath  == [op |-> "none", prompt |-> "", errorLog |-> <<>>, crashes |-> 0]
NoJournal == [op |-> "none", prompt |-> ""]
\* A WatchdogAnalysis: {isStuck, reason, recommendation, analysisSource}; a
\* reason that is not set is "".
Analysis(stuck, reason, recommendation, source) ==
  [isStuck |-> stuck, reason |-> reason, recommendation |-> recommendation,
   analysisSource |-> source]
NoAnalysis == Analysis(FALSE, "", "", "none")

\* A run of checkIfStuck that has taken its snapshot of the open turn, with
\* the duration it read for it.
Check(turn, d) == [owner |-> turn.owner, turn |-> turn, duration |-> d]
NoCheck == [owner |-> 0,
            turn |-> [owner |-> 0, prompt |-> "", turnTimeout |-> 0,
                      actions |-> <<>>, completed |-> FALSE,
                      abortReason |-> ""],
            duration |-> 0]

\* The handler that ran last.  When it was the end of a run of checkIfStuck:
\* the run, what the analyst did ("returned" with an analysis, "threw", or
\* "none" without an analyst) and the final analysis.
Step(op, u, c) ==
  [op |-> op, user |-> u, call |-> c, check |-> NoCheck, analyst |-> "",
   returned |-> NoAnalysis, analysis |-> NoAnalysis]
Verdict(op, u, check, outcome, a, final) ==
  [op |-> op, user |-> u, call |-> 0, check |-> check, analyst |-> outcome,
   returned |-> a, analysis |-> final]
NoStep == Step("none", "", 0)

\* ClaudeAgentProvider.abortController: null, or the controller of the query
\* that was started last (a call's query or the analyst's).
NoController == 0
AnalystQuery == MaxCalls + 1

\* ============================================================ resilience.ts

\* savePendingTurn whose write is lost: no file is left.
SavePendingTurnLost(prompt) == <<>>

\* savePendingTurn(prompt): the file holds the prompt.
SavePendingTurn(prompt) == <<prompt>>

\* getPendingTurn(): the text of the file, or null (here <<>>) without a file.
GetPendingTurn(m) == m

\* A clearPendingTurn that leaves an empty file where there was none.
ClearPendingTurnToggles(m) == IF m = <<>> THEN <<"">> ELSE <<>>

\* clearPendingTurn(): the file is gone, whether or not it was there.
ClearPendingTurn(m) == <<>>

\* logError(error): one entry is appended to the error log.
LogError(log, msg) == Append(log, msg)

\* getErrorLog(): the content, '' (here <<>>) without a file.
GetErrorLog(log) == log

\* clearErrorLog()
ClearErrorLog(log) == <<>>

\* recordCrash that drops the error log it is given.
RecordCrashNoLog(cs, pendingPrompt, log) ==
  Append(cs, [pendingPrompt |-> pendingPrompt, errorLog |-> <<>>])

\* recordCrash(pendingPrompt, errorLog): one record is pushed and saved.
RecordCrash(cs, pendingPrompt, log) ==
  Append(cs, [pendingPrompt |-> pendingPrompt, errorLog |-> log])

\* clearCrashLog()
ClearCrashLog(cs) == <<>>

\* isDirtyBoot(): getPendingTurn() !== null
IsDirtyBoot(m) == GetPendingTurn(m) # <<>>

\* shouldHalt with > for >=, and with === for >=.
ShouldHaltStrict(cs, threshold) == Len(cs) > threshold
ShouldHaltExact(cs, threshold) == Len(cs) = threshold

\* shouldHalt(): crashes.length >= this.maxCrashes
ShouldHalt(cs, threshold) == Len(cs) >= threshold

\* `!pendingPrompt` of handleDirtyBoot: null and the empty string are falsy.
Falsy(m) == m = <<>> \/ m = <<"">>

\* handleDirtyBoot that clears the files and records nothing.
HandleDirtyBootUnrecorded(m, log, cs) ==
  IF Falsy(GetPendingTurn(m))
    THEN <<m, log, cs>>
    ELSE <<ClearPendingTurn(m), ClearErrorLog(log), cs>>

\* handleDirtyBoot(): the files afterwards, as <<marker, errorLog, crashes>>.
HandleDirtyBoot(m, log, cs) ==
  IF Falsy(GetPendingTurn(m))
    THEN <<m, log, cs>>
    ELSE <<ClearPendingTurn(m), ClearErrorLog(log),
           RecordCrash(cs, GetPendingTurn(m)[1], GetErrorLog(log))>>

\* handleCleanBoot that leaves the crash log.
HandleCleanBootKeepsCrashes(m, log, cs) ==
  <<ClearPendingTurn(m), ClearErrorLog(log), cs>>

\* handleCleanBoot(): the files afterwards.
HandleCleanBoot(m, log, cs) ==
  <<ClearPendingTurn(m), ClearErrorLog(log), ClearCrashLog(cs)>>


\* ============================================================ guardrails.ts

\* The last n elements of s: s.slice(-n).
LastN(s, n) == IF Len(s) <= n THEN s ELSE SubSeq(s, Len(s) - n + 1, Len(s))

\* s without its i-th element.
RemoveAt(s, i) == SubSeq(s, 1, i - 1) \o SubSeq(s, i + 1, Len(s))

\* TurnActions, by type and tool name.
TextResponse   == [type |-> "text_response", toolName |-> ""]
ToolCall(n)    == [type |-> "tool_call", toolName |-> n]
ToolResult(n)  == [type |-> "tool_result", toolName |-> n]
ErrorAction    == [type |-> "error", toolName |-> ""]

\* A startTurn whose record starts out completed.
StartTurnCompleted(c, prompt, withParams) ==
  <<[owner |-> c, prompt |-> prompt, turnTimeout |-> withParams["turnTimeout"],
     actions |-> <<>>, completed |-> TRUE, abortReason |-> ""]>>

\* TurnLogger.startTurn(userPrompt, params): a fresh record replaces the open
\* one.  owner names the processMessage call that opened it (the turnId).
\* turnTimeout is the one of the params the record keeps, completeParams =
\* { turnTimeout: params.turnTimeout || 600000, ..., ...params }: the spread
\* comes last, so for params that have the key, as the ParamsManager's always
\* do, the record keeps the value as it is, 0 and undefined included.
StartTurn(c, prompt, withParams) ==
  <<[owner |-> c, prompt |-> prompt, turnTimeout |-> withParams["turnTimeout"],
     actions |-> <<>>, completed |-> FALSE, abortReason |-> ""]>>

\* TurnLogger.logAction(action): pushed on the open turn, dropped without one.
LogAction(turn, action) ==
  IF turn = <<>> THEN turn
  ELSE <<[turn[1] EXCEPT !.actions = Append(@, action)]>>

\* An endTurn that leaves the turn open.
EndTurnKeepsOpen(turn) == turn

\* TurnLogger.endTurn(completed, abortReason): no turn is open afterwards.
EndTurn(turn) == <<>>

\* TurnLogger.endTurn(completed, abortReason): the record of the open turn as
\* it is saved and returned; abortReason is set only when one is given.
EndTurnRecord(record, completed, abortReason) ==
  [record EXCEPT !.completed = completed,
                 !.abortReason = IF abortReason # "" THEN abortReason ELSE @]

\* A saveTurnLog that keeps every record.
SaveTurnLogKeepsAll(log, record) == Append(log, record)

\* TurnLogger.saveTurnLog(turn): appended, and the last 100 records kept.
SaveTurnLog(log, record) == LastN(Append(log, record), KeptTurns)

\* TurnLogger.endTurn(completed, abortReason): what LOGGED_TURNS.json holds
\* afterwards.  Nothing is written without an open turn; abortReason is set
\* only when one is given.
EndTurnLog(log, turn, completed, abortReason) ==
  IF turn = <<>> THEN log
  ELSE SaveTurnLog(log, EndTurnRecord(turn[1], completed, abortReason))

\* ------------------------------------------------------------ ParamsManager
\* AgentParams are modelled by two of their keys, one with a built-in default
\* and one without; temperature and maxTokens behave as turnTimeout does.  A
\* key that is missing and a key whose value is undefined are both Undefined:
\* they read the same, and JSON.stringify leaves both out of the file.
ParamKeys == {"turnTimeout", "model"}
Undefined == -1
ParamValues == {Undefined, 0, DefaultTurnTimeout, DefaultTurnTimeout + 1}

\* loadDefaultParams(): const defaults
BuiltinParams == [k \in ParamKeys |->
                   IF k = "turnTimeout" THEN DefaultTurnTimeout ELSE Undefined]

\* loadDefaultParams(): { ...defaults, ...savedParams } with a file, defaults
\* without one.
LoadDefaultParams(file) ==
  IF file = <<>> THEN BuiltinParams
  ELSE [k \in ParamKeys |->
          IF file[1][k] # Undefined THEN file[1][k] ELSE BuiltinParams[k]]

\* setParam(key, value): this.currentParams[key] = value
SetParam(current, key, value) == [current EXCEPT ![key] = value]

\* setParams(params): { ...this.currentParams, ...params }; params is a
\* function on the keys it names.
SetParams(current, partial) ==
  [k \in ParamKeys |-> IF k \in DOMAIN partial THEN partial[k] ELSE current[k]]

\* saveAsDefaults(): JSON.stringify(this.currentParams) leaves out the keys
\* whose value is undefined.
Stringify(current) == <<current>>

\* saveAsDefaults(): this.defaultParams = { ...this.currentParams }
SaveAsDefaults(current) == current

\* A resetToDefaults that goes back to the built-in defaults.
ResetToBuiltin(defaults) == BuiltinParams

\* resetToDefaults(): this.currentParams = { ...this.defaultParams }
ResetToDefaults(defaults) == defaults

\* getTurnTimeout(): this.currentParams.turnTimeout || 600000
GetTurnTimeout(current) ==
  IF current["turnTimeout"] \in {Undefined, 0} THEN DefaultTurnTimeout
  ELSE current["turnTimeout"]

\* TurnWatchdog.hasRepetitivePattern(actions)
HasRepetitivePattern(actions) ==
  IF Len(actions) < 6 THEN FALSE
  ELSE LET recentActions == LastN(actions, 6)
           IsToolCall(a) == a.type = "tool_call"
           toolCalls == SelectSeq(recentActions, IsToolCall)
           toolNames == [i \in 1..Len(toolCalls) |-> toolCalls[i].toolName]
       IN IF Len(toolCalls) >= 4
            THEN \/ Cardinality({toolNames[i] : i \in 1..Len(toolNames)}) = 1
                 \/ (toolNames[1] = toolNames[3] /\ toolNames[2] = toolNames[4])
            ELSE FALSE

\* A hasNoProgress that takes two errors among the last five for no progress.
HasNoProgressTwoErrors(actions) ==
  IF Len(actions) = 0 THEN TRUE
  ELSE LET recentActions == LastN(actions, 5)
           IsError(a) == a.type = "error"
       IN Len(SelectSeq(recentActions, IsError)) >= 2

\* TurnWatchdog.hasNoProgress(actions)
HasNoProgress(actions) ==
  IF Len(actions) = 0 THEN TRUE
  ELSE LET recentActions == LastN(actions, 5)
           IsError(a) == a.type = "error"
       IN Len(SelectSeq(recentActions, IsError)) >= 3

ReasonRepetitive == "Detected repetitive action pattern (possible infinite loop)"
ReasonNoProgress == "No meaningful progress detected within timeout"
ReasonTimeout    == "Turn exceeded timeout of 600 seconds"
ReasonTimeoutAbove == "Turn exceeded timeout of 600.001 seconds"

\* `Turn exceeded timeout of ${timeout / 1000} seconds`
ReasonTimeoutOf(timeout) ==
  IF timeout = DefaultTurnTimeout THEN ReasonTimeout ELSE ReasonTimeoutAbove

\* An analyzeWithHeuristics that takes a turn at the timeout for stuck.
AnalyzeWithHeuristicsAtTimeout(turn, duration, timeout) ==
  IF duration >= timeout
    THEN IF HasRepetitivePattern(turn.actions)
           THEN Analysis(TRUE, ReasonRepetitive, "Abort turn and notify user",
                         "heuristic")
         ELSE IF HasNoProgress(turn.actions)
           THEN Analysis(TRUE, ReasonNoProgress, "Abort turn and notify user",
                         "heuristic")
         ELSE Analysis(TRUE, ReasonTimeoutOf(timeout),
                       "Abort turn and notify user", "heuristic")
    ELSE Analysis(FALSE, "", "Continue monitoring", "heuristic")

\* TurnWatchdog.analyzeWithHeuristics(turn), for a snapshot of the open turn
\* whose duration reads as duration.
AnalyzeWithHeuristics(turn, duration, timeout) ==
  IF duration > timeout
    THEN IF HasRepetitivePattern(turn.actions)
           THEN Analysis(TRUE, ReasonRepetitive, "Abort turn and notify user",
                         "heuristic")
         ELSE IF HasNoProgress(turn.actions)
           THEN Analysis(TRUE, ReasonNoProgress, "Abort turn and notify user",
                         "heuristic")
         ELSE Analysis(TRUE, ReasonTimeoutOf(timeout),
                       "Abort turn and notify user", "heuristic")
    ELSE Analysis(FALSE, "", "Continue monitoring", "heuristic")

\* The analyst's analysis as it was returned.
AnalystAnalysisKeepsSource(a) == a

\* checkIfStuck, the analyst has returned a: analysis.analysisSource = 'agent'.
AnalystAnalysis(a) == [a EXCEPT !.analysisSource = "agent"]

\* checkIfStuck: const heuristicAnalysis = this.analyzeWithHeuristics(currentTurn)
Heuristic(check) ==
  AnalyzeWithHeuristics(check.turn, check.duration, GetTurnTimeout(currentParams))

\* A checkIfStuck that declares the turn stuck when the analyst throws.
FinalAnalysisThrowIsStuck(analyst, h, outcome, a) ==
  IF h.isStuck /\ analyst = "none" THEN h
  ELSE IF analyst # "none"
    THEN IF outcome = "returned" THEN AnalystAnalysis(a)
         ELSE Analysis(TRUE, ReasonTimeout, "Abort turn and notify user",
                       "heuristic")
  ELSE h

\* checkIfStuck, the final analysis of a check whose heuristic analysis is h:
\* outcome is what the analyst did ("returned" with a, or "threw"); without an
\* analyst the heuristic analysis stands.
FinalAnalysis(analyst, h, outcome, a) ==
  IF h.isStuck /\ analyst = "none" THEN h
  ELSE IF analyst # "none"
    THEN IF outcome = "returned" THEN AnalystAnalysis(a) ELSE h
  ELSE h

\* TurnWatchdog.scheduleCheck(): setTimeout stores a new timer in timeoutId; a
\* timer it named before keeps running, out of clearTimeout's reach.
ScheduleCheck ==
  /\ timeoutId' = TRUE
  /\ orphanTimers' = IF timeoutId THEN orphanTimers + 1 ELSE orphanTimers

\* TurnWatchdog.startWatching(onStuck)
StartWatching(u) ==
  /\ onStuck' = <<u>>
  /\ invoked' = 0
  /\ ScheduleCheck

\* stopWatching without onStuck = null.
StopWatchingKeepsCallback ==
  /\ timeoutId' = FALSE
  /\ UNCHANGED <<onStuck, orphanTimers>>

\* stopWatching without clearTimeout.
StopWatchingKeepsTimer ==
  /\ onStuck' = <<>>
  /\ UNCHANGED <<timeoutId, orphanTimers>>

\* TurnWatchdog.stopWatching(): clearTimeout(timeoutId); onStuck = null.
StopWatching ==
  /\ timeoutId' = FALSE
  /\ onStuck' = <<>>
  /\ UNCHANGED orphanTimers

\* ========================================================= core/agent-service.ts

InFlight(c) == calls[c].pc \in {"options", "query"}
Settled(c)  == calls[c].pc \in {"returned", "threw"}
Idle(c)     == calls[c].pc = "idle"

\* The calls once call c has settled as pc ("returned" or "threw"): what is
\* kept of it is how it ended and what it had done.
Settle(cs, c, pc) ==
  [cs EXCEPT ![c] = [NoCall EXCEPT !.pc = pc, !.saved = cs[c].saved,
                                   !.queries = cs[c].queries,
                                   !.stuck = cs[c].stuck]]

\* AgentService.isProcessing(userId)
IsProcessing(u) == processingLock[u]

\* The call slot a new call takes.
NextCall == CHOOSE c \in CallIds : Idle(c) /\ \A d \in CallIds : Idle(d) => c <= d

\* ClaudeAgentProvider's constructor: this.params.  Its model name is left out,
\* no definition reads the model a turn record keeps.
ProviderParams == [k \in {"turnTimeout"} |-> ClaudeTurnTimeout]

\* processMessage: mergedParams = { ...guardrailParams, ...providerParams },
\* the provider's value wins for every key the provider's params hold.  The
\* agent.setParams(mergedParams) that follows leaves the provider's turnTimeout
\* as it was and never reaches the ParamsManager.
MergedParams ==
  [k \in ParamKeys |-> IF k \in DOMAIN ProviderParams THEN ProviderParams[k]
                       ELSE currentParams[k]]

\* scheduleCheck(): the delay it passes to setTimeout.
ScheduledDeadline == GetTurnTimeout(currentParams)

\* processMessage from savePendingTurn to the first await of the provider's
\* stream: the marker is written, the turn is opened, the watchdog is started
\* and ClaudeAgentProvider.query stores a new AbortController.
Dispatch(c, u, prompt) ==
  /\ marker' = SavePendingTurn(prompt)
  /\ journal' = [op |-> "save", prompt |-> prompt]
  /\ currentTurn' = StartTurn(c, prompt, MergedParams)
  /\ StartWatching(u)
  /\ abortController' = c
  /\ dispatched' = dispatched + 1
  /\ calls' = [calls EXCEPT ![c] = [user |-> u, prompt |-> prompt, pc |-> "query",
                                    saved |-> TRUE, queries |-> 1, aborted |-> FALSE,
                                    stuck |-> FALSE]]

\* A processMessage whose lock test sits inside the try block: the finally
\* block releases the lock of the call in flight.
RejectReleasesLock(u, prompt) ==
  /\ phase = "running"
  /\ IsProcessing(u)
  /\ processingLock' = [processingLock EXCEPT ![u] = FALSE]
  /\ lastStep' = Step("reject", u, 0)
  /\ UNCHANGED <<disk, phase, maxCrashes, isDirty, calls, currentTurn,
                 timeoutId, orphanTimers, onStuck, analystAgent, checks,
                 invoked, abortController, params, lastExit, death, journal,
                 tripped, dirtyRun, dispatched, accepted>>

\* processMessage, refused: the user's lock is held.
Reject(u, prompt) ==
  /\ phase = "running"
  /\ IsProcessing(u)
  /\ lastStep' = Step("reject", u, 0)
  /\ UNCHANGED <<disk, process, params, lastExit, death, journal, tripped,
                 dirtyRun, dispatched, accepted>>

\* processMessage without options: lock, then straight to the provider.
Accept(u, prompt) ==
  /\ phase = "running"
  /\ ~IsProcessing(u)
  /\ \E c \in CallIds : Idle(c)
  /\ accepted < MaxTurns
  /\ accepted' = accepted + 1
  /\ processingLock' = [processingLock EXCEPT ![u] = TRUE]
  /\ Dispatch(NextCall, u, prompt)
  /\ lastStep' = Step("accept", u, NextCall)
  /\ UNCHANGED <<errorLog, crashes, loggedTurns, phase, maxCrashes, params, isDirty,
                 analystAgent, checks,
                 lastExit, death, tripped, dirtyRun>>

\* processMessage with options.provider or options.model: lock, then the
\* await of setProvider / setModel.
AcceptWithOptions(u, prompt) ==
  /\ phase = "running"
  /\ ~IsProcessing(u)
  /\ \E c \in CallIds : Idle(c)
  /\ accepted < MaxTurns
  /\ accepted' = accepted + 1
  /\ processingLock' = [processingLock EXCEPT ![u] = TRUE]
  /\ calls' = [calls EXCEPT ![NextCall] =
                 [user |-> u, prompt |-> prompt, pc |-> "options",
                  saved |-> FALSE, queries |-> 0, aborted |-> FALSE,
                  stuck |-> FALSE]]
  /\ lastStep' = Step("accept", u, NextCall)
  /\ UNCHANGED <<disk, phase, maxCrashes, params, isDirty, currentTurn, timeoutId,
                 orphanTimers, onStuck, analystAgent, checks, invoked,
                 abortController,
                 lastExit, death, journal, tripped, dirtyRun, dispatched>>

\* setProvider / setModel resolved: the call goes on to the provider.
OptionsApplied(c) ==
  /\ phase = "running"
  /\ calls[c].pc = "options"
  /\ Dispatch(c, calls[c].user, calls[c].prompt)
  /\ lastStep' = Step("dispatch", calls[c].user, c)
  /\ UNCHANGED <<errorLog, crashes, loggedTurns, phase, maxCrashes, params, isDirty,
                 processingLock, analystAgent, checks, lastExit, death, tripped, dirtyRun, accepted>>

\* A catch block without clearPendingTurn.
CatchAndFinallyKeepsMarker(c, msg) ==
  /\ currentTurn' = <<>>
  /\ loggedTurns' = EndTurnLog(loggedTurns, LogAction(currentTurn, ErrorAction),
                               FALSE, msg)
  /\ timeoutId' = FALSE
  /\ onStuck' = <<>>
  /\ UNCHANGED orphanTimers
  /\ errorLog' = Append(errorLog, msg)
  /\ UNCHANGED marker
  /\ journal' = journal
  /\ processingLock' = [processingLock EXCEPT ![calls[c].user] = FALSE]
  /\ calls' = Settle(calls, c, "threw")

\* The catch and finally blocks of processMessage.
CatchAndFinally(c, msg) ==
  /\ currentTurn' = EndTurn(LogAction(currentTurn, ErrorAction))
  /\ loggedTurns' = EndTurnLog(loggedTurns, LogAction(currentTurn, ErrorAction),
                               FALSE, msg)
  /\ StopWatching
  /\ errorLog' = LogError(errorLog, msg)
  /\ marker' = ClearPendingTurn(marker)
  /\ journal' = [op |-> "clear", prompt |-> ""]
  /\ processingLock' = [processingLock EXCEPT ![calls[c].user] = FALSE]
  /\ calls' = Settle(calls, c, "threw")

\* setProvider / setModel threw ('Provider not found', 'Model not found').
OptionsFailed(c) ==
  /\ phase = "running"
  /\ calls[c].pc = "options"
  /\ Len(errorLog) < MaxErrLog
  /\ CatchAndFinally(c, ErrOptions)
  /\ lastStep' = Step("throw", calls[c].user, c)
  /\ UNCHANGED <<crashes, phase, maxCrashes, params, isDirty, analystAgent, checks,
                 invoked, abortController,
                 lastExit, death, tripped, dirtyRun, dispatched, accepted>>

\* processWithoutStreaming: the TurnAction logged for a content block.
BlockAction(type) ==
  IF type = "text" THEN TextResponse
  ELSE IF type = "tool_use" THEN ToolCall("tool")
  ELSE IF type = "tool_result" THEN ToolResult("tool")
  ELSE ErrorAction

\* The provider's stream yields a block; it is logged on the open turn.
ProviderBlock(c, type) ==
  /\ phase = "running"
  /\ calls[c].pc = "query"
  /\ currentTurn # <<>>
  /\ Len(currentTurn[1].actions) < MaxActions
  /\ currentTurn' = LogAction(currentTurn, BlockAction(type))
  /\ lastStep' = NoStep
  /\ UNCHANGED <<disk, phase, maxCrashes, params, isDirty, processingLock, calls,
                 timeoutId, orphanTimers, onStuck, analystAgent, checks, invoked,
                 abortController,
                 lastExit, death, journal, tripped, dirtyRun, dispatched, accepted>>

\* The provider's stream ends (by itself or because the query was aborted:
\* query() returns on AbortError); its finally block drops the controller and
\* processMessage runs its success path and its finally block.
ProviderDone(c) ==
  /\ phase = "running"
  /\ calls[c].pc = "query"
  /\ abortController' = NoController
  /\ StopWatching
  /\ currentTurn' = EndTurn(currentTurn)
  /\ loggedTurns' = EndTurnLog(loggedTurns, currentTurn, TRUE, "")
  /\ marker' = ClearPendingTurn(marker)
  /\ journal' = [op |-> "clear", prompt |-> ""]
  /\ processingLock' = [processingLock EXCEPT ![calls[c].user] = FALSE]
  /\ calls' = Settle(calls, c, "returned")
  /\ lastStep' = Step("return", calls[c].user, c)
  /\ UNCHANGED <<errorLog, crashes, phase, maxCrashes, params, isDirty, analystAgent,
                 checks, invoked,
                 lastExit, death, tripped, dirtyRun, dispatched, accepted>>

\* The provider's call fails: query() catches the failure, yields one error
\* block and ends.  The block is logged on the open turn and processMessage
\* runs its success path and its finally block.
ProviderFailed(c) ==
  /\ phase = "running"
  /\ calls[c].pc = "query"
  /\ ~calls[c].aborted
  /\ abortController' = NoController
  /\ StopWatching
  /\ currentTurn' = EndTurn(LogAction(currentTurn, BlockAction("error")))
  /\ loggedTurns' = EndTurnLog(loggedTurns,
                               LogAction(currentTurn, BlockAction("error")),
                               TRUE, "")
  /\ marker' = ClearPendingTurn(marker)
  /\ journal' = [op |-> "clear", prompt |-> ""]
  /\ processingLock' = [processingLock EXCEPT ![calls[c].user] = FALSE]
  /\ calls' = Settle(calls, c, "returned")
  /\ lastStep' = Step("failed", calls[c].user, c)
  /\ UNCHANGED <<errorLog, crashes, phase, maxCrashes, params, isDirty, analystAgent,
                 checks, invoked, lastExit, death, tripped, dirtyRun,
                 dispatched, accepted>>

\* A processMessage that queries the provider again when its stream throws.
ProviderThrewRetries(c) ==
  /\ phase = "running"
  /\ calls[c].pc = "query"
  /\ ~calls[c].aborted
  /\ calls[c].queries <= MaxCalls
  /\ abortController' = c
  /\ dispatched' = dispatched + 1
  /\ calls' = [calls EXCEPT ![c].queries = @ + 1]
  /\ lastStep' = Step("throw", calls[c].user, c)
  /\ UNCHANGED <<disk, params, phase, maxCrashes, isDirty, processingLock,
                 currentTurn, timeoutId, orphanTimers, onStuck, analystAgent,
                 checks, invoked, lastExit, death, journal, tripped, dirtyRun,
                 accepted>>

\* The provider's stream throws: catch and finally of processMessage.
ProviderThrew(c) ==
  /\ phase = "running"
  /\ calls[c].pc = "query"
  /\ ~calls[c].aborted
  /\ Len(errorLog) < MaxErrLog
  /\ abortController' = NoController
  /\ CatchAndFinally(c, ErrProvider)
  /\ lastStep' = Step("throw", calls[c].user, c)
  /\ UNCHANGED <<crashes, phase, maxCrashes, params, isDirty, analystAgent, checks,
                 invoked,
                 lastExit, death, tripped, dirtyRun, dispatched, accepted>>


\* ================================================== the watchdog's deadline

\* What the analyst callback of AgentService.setupAnalystAgent returns: the
\* verdict parsed from the provider's answer, or its fallback when the query
\* failed or the answer held no JSON.  It never throws.
ReasonAgent    == "Analise do agente"
ReasonFallback == "Timeout excedido (analise do agente falhou)"
AnalystReturns ==
  {Analysis(TRUE, ReasonAgent, "Verificar turno", "agent"),
   Analysis(FALSE, ReasonAgent, "Verificar turno", "agent"),
   Analysis(TRUE, ReasonFallback, "Abortar turno", "heuristic")}

\* checkIfStuck up to its await, with an analyst registered: nothing without
\* an open turn; otherwise the snapshot is analysed with the heuristics and
\* the analyst is called, whose callback starts a query on the same provider.
CheckIfStuck(d) ==
  IF currentTurn = <<>>
    THEN UNCHANGED <<checks, abortController>>
    ELSE /\ checks' = Append(checks, Check(currentTurn[1], d))
         /\ abortController' = AnalystQuery

\* The timer that timeoutId names expires.
TimerFired(d) ==
  /\ phase = "running"
  /\ timeoutId
  /\ timeoutId' = FALSE
  /\ CheckIfStuck(d)
  /\ lastStep' = NoStep
  /\ UNCHANGED <<disk, phase, maxCrashes, params, isDirty, processingLock, calls,
                 currentTurn, orphanTimers, onStuck, analystAgent, invoked,
                 lastExit, death, journal, tripped, dirtyRun, dispatched, accepted>>

\* A timer that timeoutId no longer names expires.
OrphanTimerFired(d) ==
  /\ phase = "running"
  /\ orphanTimers > 0
  /\ orphanTimers' = orphanTimers - 1
  /\ CheckIfStuck(d)
  /\ lastStep' = NoStep
  /\ UNCHANGED <<disk, phase, maxCrashes, params, isDirty, processingLock, calls,
                 currentTurn, timeoutId, onStuck, analystAgent, invoked,
                 lastExit, death, journal, tripped, dirtyRun, dispatched, accepted>>

\* ClaudeAgentProvider.abort(): the controller stored last is aborted, if any.
Abort(ac, cs) ==
  IF ac \in CallIds THEN [cs EXCEPT ![ac].aborted = TRUE] ELSE cs

\* The calls once the open turn, if any, was ended by the stuck handler: the
\* call that opened it is the call whose turn the watchdog aborted.
MarkStuck(turn, cs) ==
  IF turn = <<>> THEN cs ELSE [cs EXCEPT ![turn[1].owner].stuck = TRUE]

\* AgentService.handleStuckAgent(userId, analysis), called through onStuck
\* when the provider's controller is ac.
HandleStuckAgent(u, ac, analysis) ==
  /\ calls' = MarkStuck(currentTurn, Abort(ac, calls))
  /\ StopWatching
  /\ currentTurn' = EndTurn(currentTurn)
  /\ loggedTurns' = EndTurnLog(loggedTurns, currentTurn, FALSE, analysis.reason)
  /\ marker' = ClearPendingTurn(marker)
  /\ journal' = [op |-> "clear", prompt |-> ""]
  /\ processingLock' = [processingLock EXCEPT ![u] = FALSE]

\* The final analysis of the i-th waiting check when the analyst returns a.
Final(i, a) ==
  FinalAnalysis(analystAgent, Heuristic(checks[i]), "returned", a)

\* The analyst's query ends (its finally block drops the provider's
\* controller) with the verdict stuck, and onStuck is still set.
AnalystSaysStuck(i, a) ==
  /\ phase = "running"
  /\ i \in 1..Len(checks)
  /\ Final(i, a).isStuck
  /\ onStuck # <<>>
  /\ checks' = RemoveAt(checks, i)
  /\ abortController' = NoController
  /\ invoked' = invoked + 1
  /\ HandleStuckAgent(onStuck[1], NoController, Final(i, a))
  /\ lastStep' = Verdict("stuck", onStuck[1], checks[i], "returned", a,
                         Final(i, a))
  /\ UNCHANGED <<errorLog, crashes, phase, maxCrashes, params, isDirty, analystAgent,
                 lastExit, death, tripped, dirtyRun, dispatched, accepted>>

\* A verdict that is not stuck after which no check is scheduled.
AnalystSaysNotStuckOnce(i, a) ==
  /\ phase = "running"
  /\ i \in 1..Len(checks)
  /\ ~Final(i, a).isStuck
  /\ onStuck # <<>>
  /\ currentTurn # <<>>
  /\ checks' = RemoveAt(checks, i)
  /\ abortController' = NoController
  /\ lastStep' = Verdict("recheck", onStuck[1], checks[i], "returned", a,
                         Final(i, a))
  /\ UNCHANGED <<disk, phase, maxCrashes, params, isDirty, processingLock, calls,
                 currentTurn, timeoutId, orphanTimers, onStuck, analystAgent,
                 invoked,
                 lastExit, death, journal, tripped, dirtyRun, dispatched, accepted>>

\* The verdict is not stuck, onStuck is set and a turn is open: one more check.
AnalystSaysNotStuck(i, a) ==
  /\ phase = "running"
  /\ i \in 1..Len(checks)
  /\ ~Final(i, a).isStuck
  /\ onStuck # <<>>
  /\ currentTurn # <<>>
  /\ checks' = RemoveAt(checks, i)
  /\ abortController' = NoController
  /\ ScheduleCheck
  /\ lastStep' = Verdict("recheck", onStuck[1], checks[i], "returned", a,
                         Final(i, a))
  /\ UNCHANGED <<disk, phase, maxCrashes, params, isDirty, processingLock, calls,
                 currentTurn, onStuck, analystAgent, invoked,
                 lastExit, death, journal, tripped, dirtyRun, dispatched, accepted>>

\* Any verdict with onStuck null, or not stuck with no open turn: nothing.
AnalystIgnored(i, a) ==
  /\ phase = "running"
  /\ i \in 1..Len(checks)
  /\ \/ onStuck = <<>>
     \/ (~Final(i, a).isStuck /\ currentTurn = <<>>)
  /\ checks' = RemoveAt(checks, i)
  /\ abortController' = NoController
  /\ lastStep' = Verdict("ignored", "", checks[i], "returned", a,
                         Final(i, a))
  /\ UNCHANGED <<disk, phase, maxCrashes, params, isDirty, processingLock, calls,
                 currentTurn, timeoutId, orphanTimers, onStuck, analystAgent,
                 invoked,
                 lastExit, death, journal, tripped, dirtyRun, dispatched, accepted>>

\* ===================================================================== index.ts

\* The process ends: what it held in memory is lost, and the next process
\* starts from what the constructors set up.
FreshProcess ==
  /\ processingLock' = [u \in Users |-> FALSE]
  /\ calls' = [c \in CallIds |-> NoCall]
  /\ currentTurn' = <<>>
  /\ timeoutId' = FALSE
  /\ orphanTimers' = 0
  /\ onStuck' = <<>>
  /\ loggedTurns' = <<>>
  /\ analystAgent' = "agent"
  /\ checks' = <<>>
  /\ invoked' = 0
  /\ abortController' = NoController
  /\ journal' = NoJournal
  /\ dispatched' = 0
  /\ defaultParams' = LoadDefaultParams(paramsFile)
  /\ currentParams' = LoadDefaultParams(paramsFile)
  /\ savedParams' = <<>>

\* The process manager starts the program: main() up to
\* new ResilienceManager(config.maxCrashes), with MAX_CRASHES read as t.
Start(t) ==
  /\ phase = "off"
  /\ dirtyRun <= MaxTurns
  /\ phase' = "boot"
  /\ maxCrashes' = t
  /\ isDirty' = FALSE
  /\ tripped' = FALSE
  /\ lastStep' = NoStep
  /\ UNCHANGED <<disk, params, processingLock, calls, currentTurn, timeoutId,
                 orphanTimers, onStuck, analystAgent, checks, invoked,
                 abortController,
                 lastExit, death, journal, dirtyRun, dispatched, accepted>>

\* main(): isDirtyBoot(), then handleDirtyBoot() or handleCleanBoot().
BootDetect ==
  /\ phase = "boot"
  /\ isDirty' = IsDirtyBoot(marker)
  /\ LET after == IF IsDirtyBoot(marker)
                    THEN HandleDirtyBoot(marker, errorLog, crashes)
                    ELSE HandleCleanBoot(marker, errorLog, crashes)
     IN /\ marker' = after[1]
        /\ errorLog' = after[2]
        /\ crashes' = after[3]
  /\ phase' = "breaker"
  /\ dirtyRun' = IF marker # <<>> THEN dirtyRun + 1 ELSE 0
  /\ lastStep' = NoStep
  /\ UNCHANGED <<loggedTurns, maxCrashes, params, processingLock, calls, currentTurn,
                 timeoutId, orphanTimers, onStuck, analystAgent, checks, invoked,
                 abortController,
                 lastExit, death, journal, tripped, dispatched, accepted>>

\* main(): if (resilience.shouldHalt()) notify and exit, else start the channels.
BreakerCheck ==
  /\ phase = "breaker"
  /\ phase' = IF ShouldHalt(crashes, maxCrashes) THEN "halting" ELSE "running"
  /\ tripped' = (Len(crashes) >= maxCrashes)
  /\ death' = NoDeath
  /\ lastStep' = NoStep
  /\ UNCHANGED <<disk, maxCrashes, params, isDirty, processingLock, calls, currentTurn,
                 timeoutId, orphanTimers, onStuck, analystAgent, checks, invoked,
                 abortController,
                 lastExit, journal, dirtyRun, dispatched, accepted>>

\* main(): process.exit(1) after the circuit breaker's notification.
HaltExit ==
  /\ phase = "halting"
  /\ phase' = "off"
  /\ lastExit' = "exit1"
  /\ lastStep' = NoStep
  /\ FreshProcess
  /\ UNCHANGED <<marker, errorLog, crashes, maxCrashes, paramsFile, isDirty, death, tripped, dirtyRun, accepted>>

\* shutdown() that exits without clearPendingTurn.
ShutdownKeepsMarker ==
  /\ phase = "running"
  /\ phase' = "off"
  /\ lastExit' = "exit0"
  /\ death' = [op |-> journal.op, prompt |-> journal.prompt,
               errorLog |-> errorLog, crashes |-> Len(crashes)]
  /\ lastStep' = NoStep
  /\ FreshProcess
  /\ UNCHANGED <<marker, errorLog, crashes, maxCrashes, paramsFile, isDirty, tripped, dirtyRun, accepted>>

\* SIGINT / SIGTERM, shutdown(): the channels are stopped, clearPendingTurn(),
\* process.exit(0).  The handlers that run while shutdown() awaits
\* channel.stop() act as they do before the signal, so the signal is taken to
\* arrive after them and shutdown() is one step.
Shutdown ==
  /\ phase = "running"
  /\ marker' = ClearPendingTurn(marker)
  /\ phase' = "off"
  /\ lastExit' = "exit0"
  /\ death' = [op |-> journal.op, prompt |-> journal.prompt,
               errorLog |-> errorLog, crashes |-> Len(crashes)]
  /\ lastStep' = NoStep
  /\ FreshProcess
  /\ UNCHANGED <<errorLog, crashes, maxCrashes, paramsFile, isDirty, tripped,
                 dirtyRun, accepted>>

\* The process dies while it serves (kill -9, out of memory, power loss).
Kill ==
  /\ phase = "running"
  /\ phase' = "off"
  /\ lastExit' = "killed"
  /\ death' = [op |-> journal.op, prompt |-> journal.prompt,
               errorLog |-> errorLog, crashes |-> Len(crashes)]
  /\ lastStep' = NoStep
  /\ FreshProcess
  /\ UNCHANGED <<marker, errorLog, crashes, maxCrashes, paramsFile, isDirty, tripped, dirtyRun, accepted>>

\* ============================================================== specification

InitProcess ==
  /\ phase = "off"
  /\ maxCrashes = DefaultMaxCrashes
  /\ isDirty = FALSE
  /\ processingLock = [u \in Users |-> FALSE]
  /\ calls = [c \in CallIds |-> NoCall]
  /\ currentTurn = <<>>
  /\ timeoutId = FALSE
  /\ orphanTimers = 0
  /\ onStuck = <<>>
  /\ analystAgent = "agent"
  /\ checks = <<>>
  /\ invoked = 0
  /\ abortController = NoController
  /\ lastExit = "none"
  /\ death = NoDeath
  /\ journal = NoJournal
  /\ tripped = FALSE
  /\ dirtyRun = 0
  /\ dispatched = 0
  /\ accepted = 0
  /\ lastStep = NoStep
  /\ paramsFile = <<>>
  /\ defaultParams = BuiltinParams
  /\ currentParams = BuiltinParams
  /\ savedParams = <<>>

\* A first start on an empty data directory.
Init ==
  /\ marker = <<>>
  /\ errorLog = <<>>
  /\ crashes = <<>>
  /\ loggedTurns = <<>>
  /\ InitProcess

Next ==
  \/ Start(DefaultMaxCrashes)
  \/ BootDetect
  \/ BreakerCheck
  \/ HaltExit
  \/ Shutdown
  \/ Kill
  \/ \E u \in Users : Reject(u, Text(accepted + 1))
  \/ \E u \in Users : Accept(u, Text(accepted + 1))
  \/ \E u \in Users : AcceptWithOptions(u, Text(accepted + 1))
  \/ \E c \in CallIds : OptionsApplied(c)
  \/ \E c \in CallIds : OptionsFailed(c)
  \/ \E c \in CallIds, b \in BlockTypes : ProviderBlock(c, b)
  \/ \E c \in CallIds : ProviderDone(c)
  \/ \E c \in CallIds : ProviderFailed(c)
  \/ \E c \in CallIds : ProviderThrew(c)
  \/ \E d \in Durations : TimerFired(d)
  \/ \E d \in Durations : OrphanTimerFired(d)
  \/ \E i \in 1..Len(checks), a \in AnalystReturns : AnalystSaysStuck(i, a)
  \/ \E i \in 1..Len(checks), a \in AnalystReturns : AnalystSaysNotStuck(i, a)
  \/ \E i \in 1..Len(checks), a \in AnalystReturns : AnalystIgnored(i, a)

Spec == Init /\ [][Next]_vars

\* The boot sequence alone, started on any files a data directory may hold
\* (left by earlier runs under another MAX_CRASHES, or put there by hand), with
\* MAX_CRASHES set anew at each start.
Thresholds == 1..DefaultMaxCrashes
CrashLogs  == {[i \in 1..n |-> [pendingPrompt |-> "a", errorLog |-> <<>>]] :
                 n \in 0..MaxCrashLog}

InitBoot ==
  /\ marker \in {<<>>, <<"">>, <<"a">>}
  /\ errorLog \in {<<>>, <<ErrProvider>>}
  /\ crashes \in CrashLogs
  /\ loggedTurns = <<>>
  /\ InitProcess

NextBoot ==
  \/ \E t \in Thresholds : Start(t)
  \/ BootDetect
  \/ BreakerCheck
  \/ HaltExit
  \/ Shutdown
  \/ Kill

SpecBoot == InitBoot /\ [][NextBoot]_vars

\* One process from the moment it serves, after a clean boot on an empty data
\* directory, for as long as it lives.
InitServe ==
  /\ marker = <<>>
  /\ errorLog = <<>>
  /\ crashes = <<>>
  /\ loggedTurns = <<>>
  /\ phase = "running"
  /\ maxCrashes = DefaultMaxCrashes
  /\ isDirty = FALSE
  /\ processingLock = [u \in Users |-> FALSE]
  /\ calls = [c \in CallIds |-> NoCall]
  /\ currentTurn = <<>>
  /\ timeoutId = FALSE
  /\ orphanTimers = 0
  /\ onStuck = <<>>
  /\ analystAgent = "agent"
  /\ checks = <<>>
  /\ invoked = 0
  /\ abortController = NoController
  /\ lastExit = "none"
  /\ death = NoDeath
  /\ journal = NoJournal
  /\ tripped = FALSE
  /\ dirtyRun = 0
  /\ dispatched = 0
  /\ accepted = 0
  /\ lastStep = NoStep
  /\ paramsFile = <<>>
  /\ defaultParams = BuiltinParams
  /\ currentParams = BuiltinParams
  /\ savedParams = <<>>

NextServe ==
  \/ \E u \in Users : Reject(u, Text(accepted + 1))
  \/ \E u \in Users : Accept(u, Text(accepted + 1))
  \/ \E u \in Users : AcceptWithOptions(u, Text(accepted + 1))
  \/ \E c \in CallIds : OptionsApplied(c)
  \/ \E c \in CallIds : OptionsFailed(c)
  \/ \E c \in CallIds, b \in BlockTypes : ProviderBlock(c, b)
  \/ \E c \in CallIds : ProviderDone(c)
  \/ \E c \in CallIds : ProviderFailed(c)
  \/ \E c \in CallIds : ProviderThrew(c)
  \/ \E d \in Durations : TimerFired(d)
  \/ \E d \in Durations : OrphanTimerFired(d)
  \/ \E i \in 1..Len(checks), a \in AnalystReturns : AnalystSaysStuck(i, a)
  \/ \E i \in 1..Len(checks), a \in AnalystReturns : AnalystSaysNotStuck(i, a)
  \/ \E i \in 1..Len(checks), a \in AnalystReturns : AnalystIgnored(i, a)

SpecServe == InitServe /\ [][NextServe]_vars

\* The timers of the event loop expire and the analyst's query ends.
FairServe ==
  /\ WF_vars(\E d \in Durations : TimerFired(d))
  /\ WF_vars(\E i \in 1..Len(checks), a \in AnalystReturns :
               \/ AnalystSaysStuck(i, a)
               \/ AnalystSaysNotStuck(i, a)
               \/ AnalystIgnored(i, a))

SpecServeFair == SpecServe /\ FairServe

\* ================================ guardrails.ts: TurnLogger and TurnWatchdog
\* The two classes on their own, with any client calling their methods and
\* any analyst callback: one that returns an analysis or one that throws.

\* What the client's side of the model holds; no method of the two classes
\* touches it.
service == <<marker, errorLog, crashes, params, phase, maxCrashes, isDirty,
             processingLock, calls, abortController, lastExit, death, journal,
             tripped, dirtyRun, dispatched>>

\* What any analyst callback may return.
AnyAnalysis ==
  {Analysis(TRUE, ReasonAgent, "Verificar turno", "agent"),
   Analysis(FALSE, "", "Continue monitoring", "heuristic"),
   Analysis(TRUE, ReasonFallback, "Abortar turno", "heuristic")}

\* turnLogger.startTurn(prompt, params)
ClientStartTurn ==
  /\ accepted < MaxWatched
  /\ accepted' = accepted + 1
  /\ currentTurn' = StartTurn(0, Text(accepted + 1), currentParams)
  /\ lastStep' = NoStep
  /\ UNCHANGED <<service, loggedTurns, timeoutId, orphanTimers, onStuck,
                 analystAgent, checks, invoked>>

\* turnLogger.logAction(action)
ClientLogAction(a) ==
  /\ currentTurn # <<>> => Len(currentTurn[1].actions) < MaxActions
  /\ currentTurn' = LogAction(currentTurn, a)
  /\ lastStep' = NoStep
  /\ UNCHANGED <<service, loggedTurns, timeoutId, orphanTimers, onStuck,
                 analystAgent, checks, invoked, accepted>>

\* turnLogger.endTurn(completed, abortReason)
ClientEndTurn(completed, abortReason) ==
  /\ currentTurn' = EndTurn(currentTurn)
  /\ loggedTurns' = EndTurnLog(loggedTurns, currentTurn, completed, abortReason)
  /\ lastStep' = NoStep
  /\ UNCHANGED <<service, timeoutId, orphanTimers, onStuck, analystAgent,
                 checks, invoked, accepted>>

\* watchdog.startWatching(onStuck)
ClientStartWatching ==
  /\ orphanTimers + Len(checks) <= MaxWatched
  /\ StartWatching("client")
  /\ lastStep' = NoStep
  /\ UNCHANGED <<service, loggedTurns, currentTurn, analystAgent, checks,
                 accepted>>

\* watchdog.stopWatching()
ClientStopWatching ==
  /\ StopWatching
  /\ lastStep' = NoStep
  /\ UNCHANGED <<service, loggedTurns, currentTurn, analystAgent, checks,
                 invoked, accepted>>

\* The end of checkIfStuck with the final analysis: onStuck is called on a
\* stuck verdict, one more check is scheduled on a verdict that is not stuck
\* while onStuck is set and a turn is open.  pending and orphans are the
\* timers as they are when the analysis is reached.
Conclude(pending, orphans, check, outcome, a) ==
  LET analysis == FinalAnalysis(analystAgent, Heuristic(check), outcome, a) IN
  IF analysis.isStuck /\ onStuck # <<>>
    THEN /\ invoked' = invoked + 1
         /\ timeoutId' = pending
         /\ orphanTimers' = orphans
         /\ lastStep' = Verdict("stuck", onStuck[1], check, outcome, a, analysis)
  ELSE IF ~analysis.isStuck /\ onStuck # <<>> /\ currentTurn # <<>>
    THEN /\ timeoutId' = TRUE
         /\ orphanTimers' = IF pending THEN orphans + 1 ELSE orphans
         /\ invoked' = invoked
         /\ lastStep' = Verdict("recheck", onStuck[1], check, outcome, a,
                                analysis)
  ELSE /\ timeoutId' = pending
       /\ orphanTimers' = orphans
       /\ invoked' = invoked
       /\ lastStep' = Verdict("ignored", "", check, outcome, a, analysis)

\* A checkIfStuck that schedules the next check when no turn is open.
ExpireReschedules(pending, orphans, d) ==
  IF currentTurn = <<>>
    THEN /\ timeoutId' = TRUE
         /\ orphanTimers' = IF pending THEN orphans + 1 ELSE orphans
         /\ lastStep' = NoStep
         /\ UNCHANGED <<checks, invoked>>
  ELSE IF analystAgent # "none"
    THEN /\ checks' = Append(checks, Check(currentTurn[1], d))
         /\ timeoutId' = pending
         /\ orphanTimers' = orphans
         /\ lastStep' = NoStep
         /\ UNCHANGED invoked
  ELSE /\ Conclude(pending, orphans, Check(currentTurn[1], d), "none",
                   NoAnalysis)
       /\ UNCHANGED checks

\* checkIfStuck from its start: it returns without an open turn, waits for
\* the analyst when one is registered, and otherwise ends with the heuristic
\* analysis of the snapshot.
Expire(pending, orphans, d) ==
  IF currentTurn = <<>>
    THEN /\ timeoutId' = pending
         /\ orphanTimers' = orphans
         /\ lastStep' = NoStep
         /\ UNCHANGED <<checks, invoked>>
  ELSE IF analystAgent # "none"
    THEN /\ checks' = Append(checks, Check(currentTurn[1], d))
         /\ timeoutId' = pending
         /\ orphanTimers' = orphans
         /\ lastStep' = NoStep
         /\ UNCHANGED invoked
  ELSE /\ Conclude(pending, orphans, Check(currentTurn[1], d), "none",
                   NoAnalysis)
       /\ UNCHANGED checks

\* The timer that timeoutId names expires.
Deadline(d) ==
  /\ timeoutId
  /\ Len(checks) < MaxWatched
  /\ Expire(FALSE, orphanTimers, d)
  /\ UNCHANGED <<service, loggedTurns, currentTurn, onStuck, analystAgent,
                 accepted>>

\* A timer that timeoutId no longer names expires.
OrphanDeadline(d) ==
  /\ orphanTimers > 0
  /\ Len(checks) < MaxWatched
  /\ Expire(timeoutId, orphanTimers - 1, d)
  /\ UNCHANGED <<service, loggedTurns, currentTurn, onStuck, analystAgent,
                 accepted>>

\* The analyst callback of the i-th waiting check returns a.
AnalystReturned(i, a) ==
  /\ i \in 1..Len(checks)
  /\ checks' = RemoveAt(checks, i)
  /\ Conclude(timeoutId, orphanTimers, checks[i], "returned", a)
  /\ UNCHANGED <<service, loggedTurns, currentTurn, onStuck, analystAgent,
                 accepted>>

\* The analyst callback of the i-th waiting check throws.
AnalystThrew(i) ==
  /\ i \in 1..Len(checks)
  /\ checks' = RemoveAt(checks, i)
  /\ Conclude(timeoutId, orphanTimers, checks[i], "threw", NoAnalysis)
  /\ UNCHANGED <<service, loggedTurns, currentTurn, onStuck, analystAgent,
                 accepted>>

\* A TurnLogger and a TurnWatchdog just constructed, with or without a call of
\* setAnalystAgent.
InitWatchdog ==
  /\ marker = <<>>
  /\ errorLog = <<>>
  /\ crashes = <<>>
  /\ loggedTurns = <<>>
  /\ phase = "running"
  /\ maxCrashes = DefaultMaxCrashes
  /\ isDirty = FALSE
  /\ processingLock = [u \in Users |-> FALSE]
  /\ calls = [c \in CallIds |-> NoCall]
  /\ currentTurn = <<>>
  /\ timeoutId = FALSE
  /\ orphanTimers = 0
  /\ onStuck = <<>>
  /\ analystAgent \in {"none", "callback"}
  /\ checks = <<>>
  /\ invoked = 0
  /\ abortController = NoController
  /\ lastExit = "none"
  /\ death = NoDeath
  /\ journal = NoJournal
  /\ tripped = FALSE
  /\ dirtyRun = 0
  /\ dispatched = 0
  /\ accepted = 0
  /\ lastStep = NoStep
  /\ paramsFile = <<>>
  /\ defaultParams = BuiltinParams
  /\ currentParams = BuiltinParams
  /\ savedParams = <<>>

NextWatchdog ==
  \/ ClientStartTurn
  \/ ClientLogAction(TextResponse)
  \/ \E completed \in BOOLEAN : ClientEndTurn(completed, "")
  \/ ClientStartWatching
  \/ ClientStopWatching
  \/ \E d \in Durations : Deadline(d)
  \/ \E d \in Durations : OrphanDeadline(d)
  \/ \E i \in 1..Len(checks), a \in AnyAnalysis : AnalystReturned(i, a)
  \/ \E i \in 1..Len(checks) : AnalystThrew(i)

SpecWatchdog == InitWatchdog /\ [][NextWatchdog]_vars

\* ------------------------------------------------- the heuristic on its own

\* The longest action list of a turn snapshot handed to the heuristic.
MaxHistory == 7

\* The TurnActions of a snapshot: text, an error, a call of one of two tools.
HistoryKinds == {TextResponse, ErrorAction, ToolCall("search"), ToolCall("read")}
Histories == UNION {[1..n -> HistoryKinds] : n \in 0..MaxHistory}

\* The parameters in force: the built-in ones, or turnTimeout set to 0 or to a
\* millisecond more than the built-in timeout.
TimeoutParams ==
  {BuiltinParams, SetParam(BuiltinParams, "turnTimeout", 0),
   SetParam(BuiltinParams, "turnTimeout", DefaultTurnTimeout + 1)}

\* The durations a snapshot may read, around the timeout in force.
NearTimeout(timeout) == {timeout - 1, timeout, timeout + 1}

\* A TurnWatchdog over a ParamsManager with some parameters in force, and an
\* open turn with any action list.
InitHeuristics ==
  /\ marker = <<>>
  /\ errorLog = <<>>
  /\ crashes = <<>>
  /\ loggedTurns = <<>>
  /\ phase = "running"
  /\ maxCrashes = DefaultMaxCrashes
  /\ isDirty = FALSE
  /\ processingLock = [u \in Users |-> FALSE]
  /\ calls = [c \in CallIds |-> NoCall]
  /\ currentParams \in TimeoutParams
  /\ \E h \in Histories :
       currentTurn = <<[StartTurn(0, Text(1), currentParams)[1]
                          EXCEPT !.actions = h]>>
  /\ timeoutId = FALSE
  /\ orphanTimers = 0
  /\ onStuck = <<>>
  /\ analystAgent = "none"
  /\ checks = <<>>
  /\ invoked = 0
  /\ abortController = NoController
  /\ lastExit = "none"
  /\ death = NoDeath
  /\ journal = NoJournal
  /\ tripped = FALSE
  /\ dirtyRun = 0
  /\ dispatched = 0
  /\ accepted = 1
  /\ lastStep = NoStep
  /\ paramsFile = <<>>
  /\ defaultParams = BuiltinParams
  /\ savedParams = <<>>

\* watchdog.analyzeWithHeuristics(turn) (or its alias analyzeTurn) on a snapshot
\* of the open turn whose duration reads as d.
Analyze(d) ==
  /\ currentTurn # <<>>
  /\ lastStep' = Verdict("analyze", "", Check(currentTurn[1], d), "none",
                         NoAnalysis,
                         AnalyzeWithHeuristics(currentTurn[1], d,
                                               GetTurnTimeout(currentParams)))
  /\ UNCHANGED <<service, params, loggedTurns, currentTurn, timeoutId,
                 orphanTimers, onStuck, analystAgent, checks, invoked, accepted>>

NextHeuristics ==
  \E d \in NearTimeout(GetTurnTimeout(currentParams)) : Analyze(d)

SpecHeuristics == InitHeuristics /\ [][NextHeuristics]_vars

\* ------------------------------------------------ the TurnLogger on its own

\* The startTurn calls and the logAction calls per turn of a run.
MaxOpened == 2
MaxLoggedActions == 2

\* The TurnActions a client logs, and the arguments it ends a turn with:
\* endTurn(), endTurn(false) and endTurn(false, reason).
LoggedKinds  == {TextResponse, ToolCall("search")}
AbortReasons == {"", ReasonNoProgress}
EndTurnArgs  == {<<TRUE, "">>, <<FALSE, "">>, <<FALSE, ReasonNoProgress>>}

\* LOGGED_TURNS.json as earlier processes left it with n records: turns
\* -n .. -1, oldest first.
EarlierTurns(n) ==
  [i \in 1..n |-> [owner |-> i - n - 1, prompt |-> Text(0),
                   turnTimeout |-> DefaultTurnTimeout, actions |-> <<>>,
                   completed |-> TRUE, abortReason |-> ""]]

\* A TurnLogger just constructed; LOGGED_TURNS.json is absent or one record
\* short of full.
InitTurnLog ==
  /\ marker = <<>>
  /\ errorLog = <<>>
  /\ crashes = <<>>
  /\ loggedTurns \in {EarlierTurns(n) : n \in {0, KeptTurns - 1}}
  /\ phase = "running"
  /\ maxCrashes = DefaultMaxCrashes
  /\ isDirty = FALSE
  /\ processingLock = [u \in Users |-> FALSE]
  /\ calls = [c \in CallIds |-> NoCall]
  /\ currentTurn = <<>>
  /\ timeoutId = FALSE
  /\ orphanTimers = 0
  /\ onStuck = <<>>
  /\ analystAgent = "none"
  /\ checks = <<>>
  /\ invoked = 0
  /\ abortController = NoController
  /\ lastExit = "none"
  /\ death = NoDeath
  /\ journal = NoJournal
  /\ tripped = FALSE
  /\ dirtyRun = 0
  /\ dispatched = 0
  /\ accepted = 0
  /\ lastStep = NoStep
  /\ paramsFile = <<>>
  /\ defaultParams = BuiltinParams
  /\ currentParams = BuiltinParams
  /\ savedParams = <<>>

\* What a TurnLogger method hands back in lastStep.check: the turn that
\* startTurn replaced, or the record that endTurn returned.
Handed(op, turn) ==
  IF turn = <<>> THEN Step(op, "", 0)
  ELSE Verdict(op, "", Check(turn[1], 0), "", NoAnalysis, NoAnalysis)

\* turnLogger.startTurn(prompt, params), with or without a turn open.
LoggerStartTurn ==
  /\ accepted < MaxOpened
  /\ accepted' = accepted + 1
  /\ currentTurn' = StartTurn(accepted + 1, Text(accepted + 1), currentParams)
  /\ lastStep' = Handed("startTurn", currentTurn)
  /\ UNCHANGED <<service, loggedTurns, timeoutId, orphanTimers, onStuck,
                 analystAgent, checks, invoked>>

\* turnLogger.logAction(a), with or without a turn open.
LoggerLogAction(a) ==
  /\ currentTurn # <<>> => Len(currentTurn[1].actions) < MaxLoggedActions
  /\ currentTurn' = LogAction(currentTurn, a)
  /\ lastStep' = Step("logAction", "", 0)
  /\ UNCHANGED <<service, loggedTurns, timeoutId, orphanTimers, onStuck,
                 analystAgent, checks, invoked, accepted>>

\* turnLogger.endTurn(completed, abortReason), with or without a turn open:
\* the record is saved and returned, or null is returned.
LoggerEndTurn(completed, abortReason) ==
  /\ currentTurn' = EndTurn(currentTurn)
  /\ loggedTurns' = EndTurnLog(loggedTurns, currentTurn, completed, abortReason)
  /\ lastStep' =
       Handed("endTurn",
              IF currentTurn = <<>> THEN <<>>
              ELSE <<EndTurnRecord(currentTurn[1], completed, abortReason)>>)
  /\ UNCHANGED <<service, timeoutId, orphanTimers, onStuck, analystAgent,
                 checks, invoked, accepted>>

NextTurnLog ==
  \/ LoggerStartTurn
  \/ \E a \in LoggedKinds : LoggerLogAction(a)
  \/ \E args \in EndTurnArgs : LoggerEndTurn(args[1], args[2])

SpecTurnLog == InitTurnLog /\ [][NextTurnLog]_vars

\* ------------------------------------------ the ResilienceManager on its own

\* A ResilienceManager over a data directory as earlier processes left it.
InitJournal ==
  /\ marker \in {<<>>, <<"a">>}
  /\ errorLog \in {<<>>, <<ErrProvider>>}
  /\ crashes \in CrashLogs
  /\ loggedTurns = <<>>
  /\ phase = "running"
  /\ maxCrashes = DefaultMaxCrashes
  /\ isDirty = FALSE
  /\ processingLock = [u \in Users |-> FALSE]
  /\ calls = [c \in CallIds |-> NoCall]
  /\ currentTurn = <<>>
  /\ timeoutId = FALSE
  /\ orphanTimers = 0
  /\ onStuck = <<>>
  /\ analystAgent = "none"
  /\ checks = <<>>
  /\ invoked = 0
  /\ abortController = NoController
  /\ lastExit = "none"
  /\ death = NoDeath
  /\ journal = NoJournal
  /\ tripped = FALSE
  /\ dirtyRun = 0
  /\ dispatched = 0
  /\ accepted = 0
  /\ lastStep = NoStep
  /\ paramsFile = <<>>
  /\ defaultParams = BuiltinParams
  /\ currentParams = BuiltinParams
  /\ savedParams = <<>>

\* What no method of the ResilienceManager's journal touches.
besides == <<loggedTurns, process, params, lastExit, death, tripped, dirtyRun,
             dispatched, accepted>>

\* resilience.savePendingTurn(prompt)
JournalSave(prompt) ==
  /\ marker' = SavePendingTurn(prompt)
  /\ journal' = [op |-> "save", prompt |-> prompt]
  /\ lastStep' = Step("savePendingTurn", "", 0)
  /\ UNCHANGED <<besides, errorLog, crashes>>

\* resilience.clearPendingTurn(); journal.prompt is the text it removed.
JournalClear ==
  /\ marker' = ClearPendingTurn(marker)
  /\ journal' = [op |-> "clear",
                 prompt |-> IF marker = <<>> THEN "" ELSE marker[1]]
  /\ lastStep' = Step("clearPendingTurn", "", 0)
  /\ UNCHANGED <<besides, errorLog, crashes>>

\* resilience.logError(error)
JournalLogError(msg) ==
  /\ Len(errorLog) <= MaxErrLog
  /\ errorLog' = LogError(errorLog, msg)
  /\ lastStep' = Step("logError", "", 0)
  /\ UNCHANGED <<besides, marker, crashes, journal>>

NextJournal ==
  \/ \E n \in 1..MaxCalls : JournalSave(Text(n))
  \/ JournalClear
  \/ JournalLogError(ErrProvider)

SpecJournal == InitJournal /\ [][NextJournal]_vars

\* ---------------------------------------------- the ParamsManager on its own

\* What DEFAULT_PARAMS.json may hold.
ParamsFiles == {<<>>} \cup {<<f>> : f \in [ParamKeys -> ParamValues]}

\* The objects a caller may pass to setParams.
Partials == UNION {[keys -> ParamValues] : keys \in SUBSET ParamKeys}

\* new ParamsManager() over a data directory with or without DEFAULT_PARAMS.json.
InitParams ==
  /\ marker = <<>>
  /\ errorLog = <<>>
  /\ crashes = <<>>
  /\ loggedTurns = <<>>
  /\ phase = "running"
  /\ maxCrashes = DefaultMaxCrashes
  /\ isDirty = FALSE
  /\ processingLock = [u \in Users |-> FALSE]
  /\ calls = [c \in CallIds |-> NoCall]
  /\ currentTurn = <<>>
  /\ timeoutId = FALSE
  /\ orphanTimers = 0
  /\ onStuck = <<>>
  /\ analystAgent = "none"
  /\ checks = <<>>
  /\ invoked = 0
  /\ abortController = NoController
  /\ lastExit = "none"
  /\ death = NoDeath
  /\ journal = NoJournal
  /\ tripped = FALSE
  /\ dirtyRun = 0
  /\ dispatched = 0
  /\ accepted = 0
  /\ lastStep = NoStep
  /\ paramsFile \in ParamsFiles
  /\ defaultParams = LoadDefaultParams(paramsFile)
  /\ currentParams = LoadDefaultParams(paramsFile)
  /\ savedParams = <<>>

\* What no method of the ParamsManager touches.
beyond == <<disk, process, lastExit, death, journal, tripped, dirtyRun,
            dispatched, accepted>>

\* new ParamsManager(), in a process started on the data directory as it is.
ParamsConstruct ==
  /\ defaultParams' = LoadDefaultParams(paramsFile)
  /\ currentParams' = LoadDefaultParams(paramsFile)
  /\ savedParams' = <<>>
  /\ lastStep' = Step("construct", "", 0)
  /\ UNCHANGED <<beyond, paramsFile>>

\* params.setParam(key, value)
ParamsSetParam(key, value) ==
  /\ currentParams' = SetParam(currentParams, key, value)
  /\ lastStep' = Step("setParam", "", 0)
  /\ UNCHANGED <<beyond, paramsFile, defaultParams, savedParams>>

\* params.setParams(partial)
ParamsSetParams(partial) ==
  /\ currentParams' = SetParams(currentParams, partial)
  /\ lastStep' = Step("setParams", "", 0)
  /\ UNCHANGED <<beyond, paramsFile, defaultParams, savedParams>>

\* params.saveAsDefaults(); savedParams remembers what was saved.
ParamsSaveAsDefaults ==
  /\ paramsFile' = Stringify(currentParams)
  /\ defaultParams' = SaveAsDefaults(currentParams)
  /\ savedParams' = <<currentParams>>
  /\ lastStep' = Step("saveAsDefaults", "", 0)
  /\ UNCHANGED <<beyond, currentParams>>

\* params.resetToDefaults()
ParamsResetToDefaults ==
  /\ currentParams' = ResetToDefaults(defaultParams)
  /\ lastStep' = Step("resetToDefaults", "", 0)
  /\ UNCHANGED <<beyond, paramsFile, defaultParams, savedParams>>

NextParams ==
  \/ ParamsConstruct
  \/ \E key \in ParamKeys, value \in ParamValues : ParamsSetParam(key, value)
  \/ \E partial \in Partials : ParamsSetParams(partial)
  \/ ParamsSaveAsDefaults
  \/ ParamsResetToDefaults

SpecParams == InitParams /\ [][NextParams]_vars

TypeOK ==
  /\ phase \in {"off", "boot", "breaker", "halting", "running"}
  /\ Len(marker) <= 1
  /\ Len(checks) <= MaxCalls + 1
  /\ orphanTimers \in 0..MaxCalls


\* ===================================================================== claims

Serving == phase = "running"

\* C1: a processMessage call for user u that is issued while an earlier call
\* for u has not settled is rejected, and a call for another user is accepted
\* in that window: right after a call was accepted, no other call of the same
\* user is still in flight.
C1_SingleFlightPerUser ==
  (Serving /\ lastStep.op = "accept") =>
    \A d \in CallIds :
      (d # lastStep.call /\ InFlight(d)) => calls[d].user # lastStep.user

\* C1, the other user's call: it was accepted while the first user's is in flight.
C1_OtherUserAccepted ==
  /\ Serving
  /\ lastStep.op = "accept"
  /\ \E d \in CallIds : d # lastStep.call /\ InFlight(d)
                        /\ calls[d].user # lastStep.user

\* C2: when the process died after savePendingTurn(X) with no clearPendingTurn
\* after it, the next boot is dirty and handleDirtyBoot has appended exactly one
\* CrashRecord, with pendingPrompt X and the error log as it was at the death;
\* the marker and the error log are gone afterwards.
C2_CrashRecorded ==
  (phase = "breaker" /\ lastExit = "killed" /\ death.op = "save") =>
    /\ isDirty
    /\ Len(crashes) = death.crashes + 1
    /\ crashes[Len(crashes)] =
         [pendingPrompt |-> death.prompt, errorLog |-> death.errorLog]
    /\ marker = <<>>
    /\ errorLog = <<>>

C2_Witness ==
  /\ phase = "breaker"
  /\ lastExit = "killed"
  /\ death.op = "save"
  /\ death.prompt = Text(3)
  /\ death.errorLog # <<>>
  /\ Len(crashes) = 2

\* C3: a process whose boot found the crash log at or over the threshold
\* starts no channel and dispatches no turn; it only waits for its
\* notification and exits with status 1.
C3_HaltBeforeAnyTurn ==
  tripped =>
    /\ phase \in {"halting", "off"}
    /\ phase = "off" => lastExit = "exit1"
    /\ dispatched = 0
    /\ \A c \in CallIds : Idle(c)

C3_Witness ==
  /\ tripped
  /\ phase = "off"
  /\ lastExit = "exit1"
  /\ Len(crashes) = DefaultMaxCrashes


\* C4: shouldHalt() is true exactly when the number of persisted CrashRecords
\* is at least the threshold: the boot halts when it is and starts serving
\* when it is not (SpecBoot: any crash log, any threshold).
C4_ShouldHaltIffThreshold ==
  /\ phase = "halting" => Len(crashes) >= maxCrashes
  /\ Serving => Len(crashes) < maxCrashes

C4_Witness ==
  /\ phase = "halting"
  /\ maxCrashes = DefaultMaxCrashes
  /\ Len(crashes) > maxCrashes


Booted == phase \in {"halting", "running"}

\* C5: the crash of the previous run is in the crash log when the breaker is
\* evaluated, so the boot that makes the number of dirty boots in a row reach
\* the threshold is the boot that halts.
C5_RecordedBeforeBreaker ==
  /\ (phase = "breaker" /\ isDirty) => (crashes # <<>> /\ marker = <<>>)
  /\ (Booted /\ isDirty /\ dirtyRun >= maxCrashes) =>
       (phase = "halting" /\ tripped)

C5_Witness ==
  /\ phase = "halting"
  /\ isDirty
  /\ dirtyRun = maxCrashes

\* C6: once a boot has tripped the breaker, every later boot halts as well
\* (nobody removes CRASHES.json in this model): after an exit with status 1 the
\* process never gets to serve.
C6_StaysHalted == lastExit = "exit1" => ~Serving

\* C7: a clean boot leaves the crash log empty and the error log and the marker
\* absent, so that the count the breaker compares with the threshold is the
\* number of dirty boots since the last clean boot.
C7_CleanBootResets ==
  /\ (phase = "breaker" /\ ~isDirty) =>
       (crashes = <<>> /\ errorLog = <<>> /\ marker = <<>>)
  /\ (phase = "breaker" \/ Booted) => Len(crashes) = dirtyRun

C7_Witness ==
  /\ phase = "breaker"
  /\ ~isDirty
  /\ lastExit = "exit1"
  /\ crashes = <<>>

\* C8: in every processMessage call savePendingTurn(prompt) has returned before
\* the provider's query for that prompt is started: a call that has started a
\* query has written the marker, and the marker holds the call's prompt at the
\* moment its query starts.
C8_MarkerBeforeQuery ==
  /\ \A c \in CallIds : calls[c].queries > 0 => calls[c].saved
  /\ (Serving /\ lastStep.op \in {"accept", "dispatch"}
        /\ calls[lastStep.call].pc = "query") =>
       marker = <<calls[lastStep.call].prompt>>

C8_Witness ==
  /\ Serving
  /\ lastStep.op = "dispatch"
  /\ calls[lastStep.call].pc = "query"
  /\ \E d \in CallIds : d # lastStep.call /\ calls[d].pc = "query"
                        /\ calls[d].prompt # calls[lastStep.call].prompt

\* C9: clearPendingTurn is called on every exit path of a turn: the marker is
\* absent right after processMessage has returned or thrown and right after
\* the stuck handler has run, and whenever no call is in flight.
C9_MarkerClearedOnExit ==
  /\ (Serving /\ lastStep.op \in {"return", "throw", "stuck"}) => marker = <<>>
  /\ (Serving /\ \A c \in CallIds : ~InFlight(c)) => marker = <<>>

C9_Witness ==
  /\ Serving
  /\ lastStep.op = "throw"
  /\ calls[lastStep.call].saved
  /\ \A c \in CallIds : ~InFlight(c)

\* C10: a graceful shutdown removes the marker before the process exits with
\* status 0, also with a turn in flight, and the boot that follows it is a
\* clean boot that records no crash.
C10_GracefulShutdownIsClean ==
  /\ (phase = "off" /\ lastExit = "exit0") => marker = <<>>
  /\ ((phase = "breaker" \/ Booted) /\ lastExit = "exit0") =>
       (~isDirty /\ crashes = <<>>)

C10_Witness ==
  /\ phase = "breaker"
  /\ lastExit = "exit0"
  /\ death.op = "save"
  /\ ~isDirty

\* The record written last to the logged turns.
LastLogged == loggedTurns[Len(loggedTurns)]

\* C11: right after the watchdog declared the open turn stuck and the stuck
\* handler ran, the open TurnRecord is finalized with completed = false and
\* the verdict's reason as abortReason, the marker is removed, the user's lock
\* is false, and no watchdog deadline is pending.
C11_StuckHandlerEffects ==
  (Serving /\ lastStep.op = "stuck") =>
    /\ currentTurn = <<>>
    /\ loggedTurns # <<>>
    /\ ~LastLogged.completed
    /\ LastLogged.abortReason = lastStep.analysis.reason
    /\ marker = <<>>
    /\ ~processingLock[lastStep.user]
    /\ ~timeoutId
    /\ orphanTimers = 0

\* C12: the processMessage call of a turn that the watchdog aborted as stuck
\* never returns a normal Response.
C12_StuckCallNeverReturns ==
  \A c \in CallIds : (Serving /\ calls[c].stuck) => calls[c].pc # "returned"

\* C13: right after the provider call of a turn failed, the turn's record is
\* finalized with completed = false and an abortReason, the marker is removed,
\* the user's lock is released, and the processMessage call has rejected.
C13_ProviderFailureRejects ==
  (Serving /\ lastStep.op = "failed") =>
    /\ marker = <<>>
    /\ ~processingLock[lastStep.user]
    /\ calls[lastStep.call].pc = "threw"
    /\ \A i \in 1..Len(loggedTurns) :
         loggedTurns[i].owner = lastStep.call =>
           (~loggedTurns[i].completed /\ loggedTurns[i].abortReason # "")

\* C14: when the processMessage call of a turn that the stuck handler already
\* finalized reaches its own endTurn, that endTurn finds no open turn and
\* writes nothing to the logged turns.
C14_SecondEndTurnPersistsNothing ==
  [][(/\ Serving
      /\ lastStep'.op \in {"return", "failed", "throw"}
      /\ calls[lastStep'.call].stuck) => loggedTurns' = loggedTurns]_vars

\* C14, each started turn is written at most once: no two records of the
\* logged turns belong to the same call.
C14_LoggedAtMostOnce ==
  \A i, j \in 1..Len(loggedTurns) :
    loggedTurns[i].owner = loggedTurns[j].owner => i = j

\* C15: while a turn of one user is open and watched, a step of a
\* processMessage call for another user (accepting it, starting, finishing or
\* failing it) changes neither the open TurnRecord, nor the pending deadline
\* and the stuck callback, nor the marker.
C15_UsersIndependent ==
  [][(/\ Serving
      /\ onStuck # <<>>
      /\ lastStep'.op \in {"accept", "dispatch", "return", "failed", "throw"}
      /\ lastStep'.user # onStuck[1])
     => /\ currentTurn' = currentTurn
        /\ timeoutId' = timeoutId
        /\ orphanTimers' = orphanTimers
        /\ onStuck' = onStuck
        /\ marker' = marker]_vars

\* C16: between two startWatching calls the stuck callback is invoked at most
\* once, and once it was invoked no deadline check is scheduled until the
\* next startWatching.
C16_StuckCallbackOnce ==
  /\ Serving => invoked <= 1
  /\ (Serving /\ invoked = 1) => (~timeoutId /\ onStuck = <<>>)

\* A second check of the same startWatching call ended with a stuck verdict
\* after the callback had been invoked, and did not invoke it again.
C16_Witness ==
  /\ Serving
  /\ invoked = 1
  /\ lastStep.op = "ignored"
  /\ lastStep.analysis.isStuck

\* C17: from the return of stopWatching to the next startWatching no deadline
\* is pending in timeoutId, the stuck callback is not invoked and no check is
\* scheduled, also when a deadline had fired before or a check is waiting for
\* the analyst.
C17_StoppedStaysIdle ==
  /\ [](Serving /\ onStuck = <<>> => ~timeoutId)
  /\ [][(Serving /\ onStuck = <<>> /\ onStuck' = <<>>)
        => /\ invoked' = invoked
           /\ ~timeoutId'
           /\ orphanTimers' <= orphanTimers]_vars

\* stopWatching was called while a check whose deadline had fired was waiting
\* for the analyst.
C17_Witness ==
  /\ Serving
  /\ onStuck = <<>>
  /\ invoked = 0
  /\ checks # <<>>

\* C17: the check that was waiting when stopWatching ran has ended without
\* invoking the callback.
C17_WitnessIgnored ==
  /\ Serving
  /\ lastStep.op = "ignored"
  /\ invoked = 0
  /\ onStuck = <<>>

\* The deadlines that are pending: the timer timeoutId names and the earlier
\* ones.
PendingTimers == orphanTimers + (IF timeoutId THEN 1 ELSE 0)

C18_OpenTurnIsWatched ==
  (Serving /\ currentTurn # <<>>) => (timeoutId \/ checks # <<>>)

\* C19: when the analyst callback threw, the final analysis of the check is
\* what analyzeWithHeuristics returns for the snapshot the check took, with
\* source heuristic.
C19_ThrowFallsBackToHeuristic ==
  lastStep.analyst = "threw" =>
    /\ lastStep.analysis =
         AnalyzeWithHeuristics(lastStep.check.turn, lastStep.check.duration,
                               DefaultTurnTimeout)
    /\ lastStep.analysis.analysisSource = "heuristic"

\* The analyst threw on a snapshot the heuristics do not call stuck, and the
\* check was rescheduled.
C19_Witness ==
  /\ lastStep.analyst = "threw"
  /\ lastStep.op = "recheck"
  /\ ~lastStep.analysis.isStuck

\* C19: the analyst threw on a snapshot the heuristics call stuck, and the
\* callback was invoked.
C19_WitnessStuck ==
  /\ lastStep.analyst = "threw"
  /\ lastStep.op = "stuck"
  /\ lastStep.analysis.reason \in {ReasonNoProgress, ReasonTimeout}

C20_WitnessNoAnalyst ==
  /\ lastStep.analyst = "none"
  /\ analystAgent = "none"
  /\ lastStep.analysis.isStuck

\* C21: analyzeWithHeuristics returns isStuck = true exactly when the
\* snapshot's duration is greater than the timeout in force (getTurnTimeout());
\* at or under the timeout it returns isStuck = false with the recommendation
\* 'Continue monitoring', whatever the actions of the turn are.
C21_StuckIffOverTimeout ==
  lastStep.op = "analyze" =>
    LET timeout == GetTurnTimeout(currentParams)
    IN /\ lastStep.analysis.isStuck <=> lastStep.check.duration > timeout
       /\ lastStep.check.duration <= timeout =>
            /\ ~lastStep.analysis.isStuck
            /\ lastStep.analysis.recommendation = "Continue monitoring"
            /\ lastStep.analysis.reason = ""

\* C21, a turn at the timeout whose actions repeat one tool: not stuck.
C21_Witness ==
  /\ lastStep.op = "analyze"
  /\ lastStep.check.duration = GetTurnTimeout(currentParams)
  /\ HasRepetitivePattern(lastStep.check.turn.actions)
  /\ ~lastStep.analysis.isStuck

\* C21, a turn over a timeout that is not the built-in one: stuck.
C21_WitnessStuck ==
  /\ lastStep.op = "analyze"
  /\ currentParams["turnTimeout"] = DefaultTurnTimeout + 1
  /\ lastStep.check.duration = DefaultTurnTimeout + 2
  /\ lastStep.analysis.isStuck

\* The tool names of the tool calls among the last 6 actions.
RecentToolNames(actions) ==
  LET IsToolCall(a) == a.type = "tool_call"
      toolCalls == SelectSeq(LastN(actions, 6), IsToolCall)
  IN [i \in 1..Len(toolCalls) |-> toolCalls[i].toolName]

\* The repetition as stated: at least 4 tool calls among the last 6 actions,
\* all of one tool or the last four names alternating A-B-A-B.
StatedRepetition(actions) ==
  LET names == RecentToolNames(actions)
      n == Len(names)
  IN /\ n >= 4
     /\ \/ \A i \in 1..n : names[i] = names[1]
        \/ (names[n - 3] = names[n - 1] /\ names[n - 2] = names[n])

\* C22: once the duration exceeds the timeout, the heuristic reports the
\* repetition reason exactly when, among the last 6 actions of the turn, at
\* least 4 are tool calls and either all of them name one tool or the last
\* four tool names alternate A-B-A-B.
C22_RepetitionAsStated ==
  (lastStep.op = "analyze" /\ lastStep.analysis.isStuck) =>
    (lastStep.analysis.reason = ReasonRepetitive
       <=> StatedRepetition(lastStep.check.turn.actions))

\* C22 for turns of 6 actions or more: the same statement.
C22_RepetitionAsStatedFrom6 ==
  (lastStep.op = "analyze" /\ lastStep.analysis.isStuck
     /\ Len(lastStep.check.turn.actions) >= 6) =>
    (lastStep.analysis.reason = ReasonRepetitive
       <=> StatedRepetition(lastStep.check.turn.actions))

\* The turnIds of the records of a log.
Owners(log) == {log[i].owner : i \in 1..Len(log)}

\* C23: the logged turns are at most 100, and they are the most recently
\* finalized ones, oldest first: whenever LOGGED_TURNS.json changes, the record
\* that endTurn just returned is its new last record, the records before it are
\* the records the file held, in the order they had, and a record is dropped
\* only from the front and only when the file held 100.
C23_KeepsMostRecent ==
  [][loggedTurns' # loggedTurns =>
       LET old == Len(loggedTurns)
           new == Len(loggedTurns')
           dropped == old + 1 - new
       IN /\ lastStep'.op = "endTurn"
          /\ new = IF old < KeptTurns THEN old + 1 ELSE KeptTurns
          /\ loggedTurns'[new] = lastStep'.check.turn
          /\ \A i \in 1..(new - 1) : loggedTurns'[i] = loggedTurns[i + dropped]]_vars

\* C23, a full file to which two turns of this process were added.
C23_Witness ==
  /\ lastStep.op = "endTurn"
  /\ Len(loggedTurns) = KeptTurns
  /\ loggedTurns[KeptTurns].owner = 2
  /\ loggedTurns[KeptTurns - 1].owner = 1
  /\ loggedTurns[1].owner < 0

\* C24: startTurn leaves one open turn, a fresh record with no actions and
\* completed = false, whether or not a turn was open, and writes nothing to the
\* logged turns; a record only enters the logged turns as the turn that is
\* open at that moment, so a turn that startTurn replaced is never written.
C24_StartTurnReplaces ==
  [][/\ lastStep'.op = "startTurn" =>
          /\ Len(currentTurn') = 1
          /\ currentTurn'[1].actions = <<>>
          /\ ~currentTurn'[1].completed
          /\ currentTurn'[1].abortReason = ""
          /\ currentTurn'[1].owner \notin Owners(loggedTurns) \cup Owners(currentTurn)
          /\ loggedTurns' = loggedTurns
     /\ \A o \in Owners(loggedTurns') \ Owners(loggedTurns) :
          currentTurn # <<>> /\ o = currentTurn[1].owner]_vars

\* C24, a startTurn that replaced an open turn with actions, which is not in
\* the logged turns.
C24_Witness ==
  /\ lastStep.op = "startTurn"
  /\ lastStep.check.turn.actions # <<>>
  /\ lastStep.check.owner \notin Owners(loggedTurns)
  /\ currentTurn # <<>>
  /\ currentTurn[1].owner # lastStep.check.owner

\* C24, the replaced turn is still not written after the next endTurn.
C24_WitnessNeverWritten ==
  /\ lastStep.op = "endTurn"
  /\ lastStep.check.owner = 2
  /\ loggedTurns # <<>>
  /\ 1 \notin Owners(loggedTurns)

\* C25: endTurn(completed, abortReason) on an open turn sets the completed flag
\* and the abort reason given, appends that record and no other to the logged
\* turns, with the actions the open turn holds, returns it and leaves no open
\* turn; and logAction only ever appends to the open turn's actions, so they
\* are the actions logged since startTurn in the order they were logged.
C25_EndTurnPersistsRecord ==
  [][/\ \A completed \in BOOLEAN, r \in AbortReasons :
          (currentTurn # <<>> /\ LoggerEndTurn(completed, r)) =>
            LET open == currentTurn[1]
                last == loggedTurns'[Len(loggedTurns')]
            IN /\ loggedTurns' # <<>>
               /\ last.completed = completed
               /\ last.abortReason = r
               /\ last.actions = open.actions
               /\ last.owner = open.owner
               /\ last.prompt = open.prompt
               /\ lastStep'.check.turn = last
               /\ currentTurn' = <<>>
               /\ \A i \in 1..(Len(loggedTurns') - 1) :
                    \E j \in 1..Len(loggedTurns) : loggedTurns'[i] = loggedTurns[j]
     /\ (lastStep'.op = "logAction" /\ currentTurn # <<>>) =>
          /\ Len(currentTurn') = 1
          /\ currentTurn'[1].owner = currentTurn[1].owner
          /\ Len(currentTurn'[1].actions) = Len(currentTurn[1].actions) + 1
          /\ SubSeq(currentTurn'[1].actions, 1, Len(currentTurn[1].actions))
               = currentTurn[1].actions]_vars

\* C25, an aborted turn with two different actions, logged in their order.
C25_Witness ==
  /\ lastStep.op = "endTurn"
  /\ currentTurn = <<>>
  /\ loggedTurns # <<>>
  /\ LastLogged.actions = <<ToolCall("search"), TextResponse>>
  /\ ~LastLogged.completed
  /\ LastLogged.abortReason = ReasonNoProgress
  /\ lastStep.check.turn = LastLogged

\* C26: at a boot, isDirtyBoot() is true exactly when a marker exists, and a
\* boot with isDirtyBoot() true appends exactly one CrashRecord, with the
\* marker's text, and removes the marker, whatever that text is.
C26_DirtyBootRecorded ==
  [][(phase = "boot" /\ phase' = "breaker") =>
       /\ isDirty' <=> marker # <<>>
       /\ isDirty' =>
            /\ Len(crashes') = Len(crashes) + 1
            /\ crashes'[Len(crashes')].pendingPrompt = marker[1]
            /\ marker' = <<>>]_vars

\* C26 for markers with a text: the same statement.
C26_DirtyBootRecordedWithText ==
  [][(phase = "boot" /\ phase' = "breaker" /\ marker # <<"">>) =>
       /\ isDirty' <=> marker # <<>>
       /\ isDirty' =>
            /\ Len(crashes') = Len(crashes) + 1
            /\ crashes'[Len(crashes')].pendingPrompt = marker[1]
            /\ marker' = <<>>]_vars

\* C27: clearPendingTurn changes nothing when no marker exists, leaves no
\* marker, leaves the same files when it is called twice in a row as when it
\* is called once, and never changes the crash log or the error log.
C27_ClearIdempotent ==
  [][lastStep'.op = "clearPendingTurn" =>
       /\ marker' = <<>>
       /\ marker = <<>> => marker' = marker
       /\ lastStep.op = "clearPendingTurn" => marker' = marker
       /\ ClearPendingTurn(marker') = marker'
       /\ errorLog' = errorLog
       /\ crashes' = crashes
       /\ loggedTurns' = loggedTurns]_vars

\* C27, a clearPendingTurn that found no marker, with entries in the error log
\* and the crash log.
C27_Witness ==
  /\ lastStep.op = "clearPendingTurn"
  /\ journal = [op |-> "clear", prompt |-> ""]
  /\ marker = <<>>
  /\ errorLog # <<>>
  /\ crashes # <<>>

\* C27, a clearPendingTurn that removed the marker of a savePendingTurn.
C27_WitnessRemoved ==
  /\ lastStep.op = "clearPendingTurn"
  /\ journal = [op |-> "clear", prompt |-> Text(2)]
  /\ marker = <<>>
  /\ errorLog # <<>>
  /\ crashes # <<>>

\* A TurnAction of type error is among the actions of the record.
HasErrorAction(record) ==
  \E i \in 1..Len(record.actions) : record.actions[i].type = "error"

\* C28: when a provider error or a stuck abort is surfaced (processMessage
\* rejects, or the stuck handler emits 'error'), the handler has appended an
\* entry to the durable error log, and the turn record it finalized holds an
\* error action.
C28_FailureLoggedBeforeSurfaced ==
  [][(Serving /\ lastStep'.op \in {"throw", "stuck"}) =>
       /\ Len(errorLog') = Len(errorLog) + 1
       /\ loggedTurns' # loggedTurns =>
            HasErrorAction(loggedTurns'[Len(loggedTurns')])]_vars

\* C28 for the errors processMessage catches: the same statement.
C28_CaughtErrorLogged ==
  [][(Serving /\ lastStep'.op = "throw") =>
       /\ Len(errorLog') = Len(errorLog) + 1
       /\ loggedTurns' # loggedTurns =>
            HasErrorAction(loggedTurns'[Len(loggedTurns')])]_vars

\* C29: no call of processMessage queries the provider with its prompt more
\* than once: a query for a user prompt starts only in the step that accepts
\* or dispatches a call that has not queried yet, and a call that has settled
\* or whose turn was aborted as stuck starts no further query.
C29_NoRetry ==
  [][(Serving /\ phase' = "running") =>
       /\ \A c \in CallIds : calls'[c].queries <= 1
       /\ dispatched' # dispatched =>
            /\ dispatched' = dispatched + 1
            /\ lastStep'.op \in {"accept", "dispatch"}
            /\ calls[lastStep'.call].queries = 0
            /\ calls'[lastStep'.call].queries = 1
       /\ \A c \in CallIds :
            (Settled(c) \/ calls[c].stuck) =>
              calls'[c].queries = calls[c].queries]_vars

\* C29, a call that threw after its one query, and nothing queried since.
C29_Witness ==
  /\ Serving
  /\ lastStep.op = "throw"
  /\ calls[lastStep.call].pc = "threw"
  /\ calls[lastStep.call].queries = 1
  /\ dispatched = 1

\* C29, a call whose turn was aborted as stuck, and nothing queried since.
C29_WitnessStuck ==
  /\ Serving
  /\ lastStep.op = "stuck"
  /\ \E c \in CallIds : calls[c].stuck /\ calls[c].queries = 1
  /\ dispatched = 1

\* C30: the ParamsManager's current parameters are seeded from the defaults at
\* construction; saveAsDefaults makes the defaults equal to the current ones
\* and leaves those; resetToDefaults makes the current ones equal to the
\* defaults, which are the values of the last saveAsDefaults whatever setParam
\* and setParams did since; and setParam and setParams never change the
\* defaults.
C30_ParamsStore ==
  [][/\ lastStep'.op = "construct" =>
          /\ defaultParams' = LoadDefaultParams(paramsFile)
          /\ currentParams' = defaultParams'
     /\ lastStep'.op = "saveAsDefaults" =>
          /\ defaultParams' = currentParams
          /\ currentParams' = currentParams
     /\ lastStep'.op = "resetToDefaults" =>
          /\ currentParams' = defaultParams
          /\ defaultParams' = defaultParams
          /\ savedParams # <<>> => currentParams' = savedParams[1]
     /\ lastStep'.op \in {"setParam", "setParams"} =>
          defaultParams' = defaultParams]_vars

\* C30, a resetToDefaults that restored saved values which are not the
\* built-in ones, one of them undefined.
C30_Witness ==
  /\ lastStep.op = "resetToDefaults"
  /\ savedParams # <<>>
  /\ currentParams = savedParams[1]
  /\ currentParams["turnTimeout"] = Undefined
  /\ currentParams["model"] = DefaultTurnTimeout + 1

\* C30, parameters set away from the defaults that were saved.
C30_WitnessSet ==
  /\ lastStep.op \in {"setParam", "setParams"}
  /\ savedParams # <<>>
  /\ defaultParams = savedParams[1]
  /\ \A k \in ParamKeys : currentParams[k] # defaultParams[k]

\* C31: the analyst's query on the provider of the supervised turn does not
\* disturb the turn: right after a stuck verdict, the abort of the stuck
\* handler has reached the in-flight query of the call whose turn the check
\* had snapshotted.
C31_AbortReachesQuery ==
  (Serving /\ lastStep.op = "stuck") =>
    \A c \in CallIds :
      (c = lastStep.check.owner /\ calls[c].pc = "query") => calls[c].aborted

\* C31, the analyst call takes no lock and starts no watchdog: the step that
\* starts it changes neither the locks nor the stuck callback and sets no
\* timer.
C31_AnalystTakesNoLock ==
  [][(Serving /\ Len(checks') > Len(checks)) =>
       /\ processingLock' = processingLock
       /\ onStuck' = onStuck
       /\ PendingTimers' = PendingTimers - 1]_vars

\* C32: when a deadline expires and no turn is open, the check does nothing:
\* the analyst is not called, the stuck callback is not invoked, no check is
\* scheduled, and the stuck callback stays registered.
C32_NoTurnNoCheck ==
  [][(/\ currentTurn = <<>>
      /\ \E d \in Durations : Deadline(d) \/ OrphanDeadline(d)) =>
       /\ checks' = checks
       /\ invoked' = invoked
       /\ PendingTimers' = PendingTimers - 1
       /\ lastStep'.op \notin {"stuck", "recheck", "ignored"}
       /\ onStuck' = onStuck
       /\ currentTurn' = <<>>
       /\ loggedTurns' = loggedTurns]_vars

\* C32, watching was started with no turn ever opened and the deadline has
\* expired: no timer is left, no analyst call is waiting, and the callback,
\* still registered, was not invoked.
C32_Witness ==
  /\ accepted = 0
  /\ currentTurn = <<>>
  /\ onStuck # <<>>
  /\ PendingTimers = 0
  /\ checks = <<>>
  /\ invoked = 0

\* No progress as stated: no action at all, or at least 3 errors among the
\* last 5 actions.
StatedNoProgress(actions) ==
  \/ Len(actions) = 0
  \/ Cardinality({i \in 1..Len(actions) :
                    i > Len(actions) - 5 /\ actions[i].type = "error"}) >= 3

\* C33: once the duration exceeds the timeout the reason is the repetition
\* reason when the actions repeat; otherwise the no-progress reason when the
\* turn has no action or at least 3 of its last 5 actions are errors;
\* otherwise the reason that names the timeout.
C33_ReasonByPriority ==
  (lastStep.op = "analyze" /\ lastStep.analysis.isStuck) =>
    LET actions == lastStep.check.turn.actions IN
    lastStep.analysis.reason =
      IF HasRepetitivePattern(actions) THEN ReasonRepetitive
      ELSE IF StatedNoProgress(actions) THEN ReasonNoProgress
      ELSE ReasonTimeoutOf(GetTurnTimeout(currentParams))

\* C33, three errors among the last five actions of a turn with tool calls.
C33_Witness ==
  /\ lastStep.op = "analyze"
  /\ lastStep.analysis.reason = ReasonNoProgress
  /\ Len(lastStep.check.turn.actions) > 5
  /\ \E i \in 1..Len(lastStep.check.turn.actions) :
       lastStep.check.turn.actions[i].type = "tool_call"

\* C33, a turn with no action.
C33_WitnessEmpty ==
  /\ lastStep.op = "analyze"
  /\ lastStep.analysis.reason = ReasonNoProgress
  /\ lastStep.check.turn.actions = <<>>

\* C33, a turn with errors that matches neither rule.
C33_WitnessTimeout ==
  /\ lastStep.op = "analyze"
  /\ lastStep.analysis.reason = ReasonTimeoutAbove
  /\ \E i \in 1..Len(lastStep.check.turn.actions) :
       lastStep.check.turn.actions[i].type = "error"

\* C33, a turn that matches both rules.
C33_BothRules ==
  /\ lastStep.op = "analyze"
  /\ HasRepetitivePattern(lastStep.check.turn.actions)
  /\ StatedNoProgress(lastStep.check.turn.actions)

\* C33, no turn matches both rules: four tool calls among the last six
\* actions leave room for two errors at most.
C33_RulesExclusive == ~C33_BothRules

\* ---------------------------------------------------------------- C34
\* C34: the deadline startWatching schedules for a turn (and the timeout the
\* heuristic compares its duration with) equals the turnTimeout recorded in
\* that turn's TurnRecord, the one of the merged parameters handed to
\* startTurn: right after a call has opened its turn and started the watchdog,
\* the record's turnTimeout is the delay scheduleCheck passed to setTimeout.
C34_DeadlineIsRecordedTimeout ==
  (/\ Serving
   /\ lastStep.op \in {"accept", "dispatch"}
   /\ currentTurn # <<>>
   /\ currentTurn[1].owner = lastStep.call
   /\ timeoutId) =>
    currentTurn[1].turnTimeout = ScheduledDeadline

\* ---------------------------------------------------------------- C35
\* C35: a processMessage call only finalizes the TurnRecord it opened, only
\* stops the watchdog started for its own turn, only removes the marker it
\* wrote and only releases the lock it acquired.  When a stuck abort has
\* released the user's lock and a new call of that user has opened a new turn,
\* the step in which the aborted call settles leaves the new turn open,
\* watched, marked and locked.
C35_LateCompletionSparesNewTurn ==
  [][\A c \in CallIds :
       (/\ Serving
        /\ calls[c].pc = "query"
        /\ calls[c].stuck
        /\ calls'[c].pc \in {"returned", "threw"}
        /\ currentTurn # <<>>
        /\ currentTurn[1].owner # c
        /\ calls[currentTurn[1].owner].user = calls[c].user) =>
         /\ currentTurn' = currentTurn
         /\ timeoutId' = timeoutId
         /\ onStuck' = onStuck
         /\ marker' = marker
         /\ processingLock' = processingLock]_vars

\* ---------------------------------------------------------------- C36
\* C36: a verdict computed from a snapshot of turn T is only ever applied to
\* T.  If T ended and another turn was started while the check waited for the
\* analyst, the analyst's answer neither invokes the new turn's stuck callback
\* nor schedules one more deadline for the new turn: in a step that ends such
\* a check, the callback is not invoked, the open turn stays open and watched,
\* and no timer is added.
C36_VerdictOnlyForItsTurn ==
  [][(/\ Serving
      /\ Len(checks') < Len(checks)
      /\ Settled(lastStep'.check.owner)
      /\ currentTurn # <<>>
      /\ currentTurn[1].owner # lastStep'.check.owner) =>
       /\ invoked' = invoked
       /\ currentTurn' = currentTurn
       /\ onStuck' = onStuck
       /\ PendingTimers' = PendingTimers]_vars

\* ---------------------------------------------------------------- C37
\* C37: whenever some processMessage call has dispatched its prompt to the
\* provider and has neither settled nor been aborted, several users' calls
\* included, the pending-turn marker exists, so that a death of the process at
\* that moment is found as a dirty boot.
C37_MarkerWhileInFlight ==
  (/\ Serving
   /\ \E c \in CallIds :
        calls[c].pc = "query" /\ ~calls[c].aborted /\ ~calls[c].stuck) =>
    marker # <<>>

\* ---------------------------------------------------------------- C38
\* C38: at any time the watchdog has at most one live deadline timer, and it
\* is the one stopWatching would cancel: no sequence of startWatching,
\* stopWatching, deadline expiry and rescheduling leaves a timer running that
\* timeoutId does not name.
C38_OneCancellableTimer ==
  Serving => (orphanTimers = 0 /\ PendingTimers <= 1)

\* ---------------------------------------------------------------- C39
\* The events a handler of AgentService emits, by the step it took:
\* 'processing' when the lock is taken and when the finally block or the stuck
\* handler releases it, 'complete' on the success path, 'error' in the catch
\* block and in the stuck handler.  The throw of a refused call comes before
\* the first emit.
Emitted(step) ==
  IF step.op = "accept" THEN {"processing"}
  ELSE IF step.op \in {"return", "failed"} THEN {"complete", "processing"}
  ELSE IF step.op \in {"throw", "stuck"} THEN {"error", "processing"}
  ELSE {}

\* C39: a processMessage call rejected with 'Already processing a message'
\* changes nothing: the lock map, the marker, the open TurnRecord, the logged
\* turns, the error log and the watchdog are what they were before the call,
\* and neither 'processing' nor 'error' is emitted.
C39_RejectChangesNothing ==
  [][(Serving /\ lastStep'.op = "reject") =>
       /\ processingLock' = processingLock
       /\ marker' = marker
       /\ currentTurn' = currentTurn
       /\ loggedTurns' = loggedTurns
       /\ errorLog' = errorLog
       /\ timeoutId' = timeoutId
       /\ orphanTimers' = orphanTimers
       /\ onStuck' = onStuck
       /\ checks' = checks
       /\ calls' = calls
       /\ Emitted(lastStep') \cap {"processing", "error"} = {}]_vars

\* A call was refused while the user's turn was open, marked and watched.
C39_Witness ==
  /\ Serving
  /\ lastStep.op = "reject"
  /\ processingLock[lastStep.user]
  /\ marker # <<>>
  /\ currentTurn # <<>>
  /\ timeoutId
  /\ \E c \in CallIds : calls[c].user = lastStep.user /\ calls[c].pc = "query"

\* ---------------------------------------------------------------- C40
\* One user whose calls of processMessage never overlap: a call starts only
\* when every earlier call has returned or thrown.  The watchdog's timers and
\* the analyst run as they do in the service.
Caller == "u1"
NoneInFlight == \A c \in CallIds : ~InFlight(c)

NextSequential ==
  \/ NoneInFlight /\ Accept(Caller, Text(accepted + 1))
  \/ NoneInFlight /\ AcceptWithOptions(Caller, Text(accepted + 1))
  \/ \E c \in CallIds : OptionsApplied(c)
  \/ \E c \in CallIds : OptionsFailed(c)
  \/ \E c \in CallIds, b \in BlockTypes : ProviderBlock(c, b)
  \/ \E c \in CallIds : ProviderDone(c)
  \/ \E c \in CallIds : ProviderFailed(c)
  \/ \E c \in CallIds : ProviderThrew(c)
  \/ \E d \in Durations : TimerFired(d)
  \/ \E d \in Durations : OrphanTimerFired(d)
  \/ \E i \in 1..Len(checks), a \in AnalystReturns : AnalystSaysStuck(i, a)
  \/ \E i \in 1..Len(checks), a \in AnalystReturns : AnalystSaysNotStuck(i, a)
  \/ \E i \in 1..Len(checks), a \in AnalystReturns : AnalystIgnored(i, a)

SpecSequential == InitServe /\ [][NextSequential]_vars

\* C40: after any sequence of non-overlapping processMessage calls of one
\* user, each of which has returned or thrown (calls that fail before the turn
\* is opened included), the system is quiescent: the user's lock is false, no
\* turn is open and the watchdog has neither a pending deadline nor a stuck
\* callback.
C40_QuiescentAfterCalls ==
  (Serving /\ NoneInFlight) =>
    /\ ~processingLock[Caller]
    /\ currentTurn = <<>>
    /\ PendingTimers = 0
    /\ onStuck = <<>>

\* C40 without the deadline: lock, open turn and stuck callback.
C40_LockTurnCallbackReleased ==
  (Serving /\ NoneInFlight) =>
    /\ ~processingLock[Caller]
    /\ currentTurn = <<>>
    /\ onStuck = <<>>

\* Some call has settled and none is in flight.
C40_SomeSettled ==
  Serving /\ NoneInFlight /\ \E c \in CallIds : Settled(c)


====
